---- MODULE Spec2Model ----
(***************************************************************************)
(* Verification model of the movie catalogue application (yrksen/tototo):  *)
(* the key-value-store HTTP API (supabase/functions/server/index.tsx:      *)
(* accounts, batch endpoints, ratings), the catalogue page                 *)
(* (src/app/App.tsx: filter, sort, pagination, initial load), the detail   *)
(* page (MovieDetailPage) and the slug codec (src/app/utils/slugify.ts).   *)
(*                                                                         *)
(* Each subsystem has its own variables and its own specification; the     *)
(* variables of the other subsystems stay at their idle values.            *)
(***************************************************************************)
EXTENDS Integers, Sequences, FiniteSets, TLC

VARIABLES
  \* ---- account store (server, user:* namespaces) ----
  kvUserId,        \* user:id:<id>            -> user record or NoUser
  kvUserName,      \* user:username:<lower>   -> user record or NoUser
  kvUserEmail,     \* user:email:<lower>      -> user record or NoUser
  nextUserId,      \* source of fresh user ids (Date.now() + random suffix)
  authStatus,      \* HTTP status of the last completed account request
  handlers,        \* the account requests in flight, one record per handler
  \* ---- slug codec (utils/slugify.ts) ----
  title,           \* the title handed to createSlug, a sequence of characters
  slug,            \* the last result of createSlug
  slugPhase,       \* "input" before createSlug has run, "encoded" after
  \* ---- catalogue page (HomePage of App.tsx) ----
  movies,          \* useState<Movie[]>: the main list
  toWatchMovies,   \* useState<Movie[]>: the to-watch list
  currentView,     \* 'main' | 'towatch'
  selectedGenres,  \* selected genres (an array without duplicates)
  selectedYears,   \* selected years
  selectedTags,    \* selected tags
  searchQuery,     \* the search box's text
  imdbRatingRange, \* <<lo, hi>> in tenths of a rating point
  runtimeFilter,   \* 'all' | 'short' | 'medium' | 'long' | 'oneSeason' | 'multiSeason'
  sortBy,          \* the sort key
  currentPage,     \* 1-based page number
  rendered,        \* "no" | "yes" | "threw": outcome of computing the page's list
  displayMovies,   \* sortedMovies of the last render
  \* ---- catalogue store (server, movie:* and towatch:* namespaces) ----
  kvMovie,         \* the entries under movie:*, in the order getByPrefix returns
  kvToWatch,       \* the entries under towatch:*
  \* ---- detail page (MovieDetailPage) ----
  titleSlug,       \* the route parameter :title
  detailMovie,     \* useState<Movie | null> movie
  detailLoading,   \* useState isLoading
  loads,           \* the calls of loadMovieData in flight
  similarMovies,   \* useState<Movie[]>: the recommended entries (order left out)
  \* ---- batch endpoints (fix-plots, fetch-all-trailers) ----
  endpoint,        \* the endpoint the request in flight was sent to
  pc,              \* the handler's position
  moviesToUpdate,  \* the entries the for-loop has yet to visit
  aborted,         \* c.req.raw.signal.aborted
  status,          \* HTTP status of the response, 0 before it is sent
  \* ---- initial load of the catalogue page (loadData) ----
  kvRating,        \* the ratings under rating:*, a sequence per entry id
  requests,        \* state of each request of the page: "idle" | "sent" | "done"
  localMovies,     \* localStorage 'movies' (<<>>: nothing stored, or '[]')
  localToWatch,    \* localStorage 'toWatchMovies'
  isLoading,       \* useState(true): the catalogue page's spinner
  \* ---- comments (server comment:* namespace, both pages) ----
  kvComment,       \* the keys <<movieId, commentId>> stored under comment:*
  comments,        \* useState<Comment[]>: the comments the page shows
  pendingDeleteCommentId, \* detail page: the comment awaiting a password
  deletion,        \* the last deletion a user confirmed, and its answer
  commentStatus,   \* the last POST /comments and its HTTP status
  \* ---- ratings (server rating:* namespace) ----
  kvRatings,       \* the records under rating:*, each with its key
  accepted,        \* per (movieId, userIdentifier): the accepted submissions
  ratingStatus,    \* HTTP status of the last POST /ratings, 0 before it
  ratingsAnswer,   \* the last answer of GET /ratings/:movieId
  \* ---- trailer batch loops of the catalogue page ----
  loopPc,          \* position of handleLoadAllTrailers / handleForceReloadAllTrailers
  loopForce,       \* TRUE for the force reload
  totalToProcess,  \* const totalToProcess
  processedSoFar,  \* let processedSoFar
  batchLimit,      \* the limit of the request in flight
  serverMovies,    \* the handler's movies (kv.getByPrefix), trailers filled in
  serverBatch,     \* the handler's moviesToUpdate
  summary,         \* data.summary of the last answer
  startList,       \* the page's list when the action started
  processedIds,    \* the ids the server has had in a batch of this run
  others,          \* number of requests other clients have made
  \* ---- mark as watched (catalogue page and detail page) ----
  markAt,          \* "home" | "detail": the page the browser shows
  markPage,        \* "home" | "detail": the page of the last operation
  markPc,          \* the request handleMarkAsWatched waits for, or "idle"
  markMovie,       \* the to-watch entry of the last operation started
  markNewId,       \* maxId + 1 of that operation, 0 before it is known
  \* ---- the window the catalogue page is shown in ----
  viewport,        \* "mobile" (below the md breakpoint) | "desktop"
  deletions        \* number of entries deleted from the catalogue page

authVars ==
  <<kvUserId, kvUserName, kvUserEmail, nextUserId, authStatus, handlers>>
slugVars == <<title, slug, slugPhase>>
listVars == <<movies, toWatchMovies>>
filterVars ==
  <<selectedGenres, selectedYears, selectedTags, searchQuery, imdbRatingRange,
    runtimeFilter>>
renderVars == <<rendered, displayMovies>>
homeVars == <<listVars, currentView, filterVars, sortBy, currentPage, renderVars>>

storeVars == <<kvMovie, kvToWatch>>
detailVars == <<titleSlug, detailMovie, detailLoading, loads, similarMovies>>
batchVars == <<endpoint, pc, moviesToUpdate, aborted, status>>
loadVars == <<kvRating, requests, localMovies, localToWatch, isLoading>>
commentVars ==
  <<kvComment, comments, pendingDeleteCommentId, deletion, commentStatus>>
ratingVars == <<kvRatings, accepted, ratingStatus, ratingsAnswer>>
feedbackVars == <<commentVars, ratingVars>>
trailerVars ==
  <<loopPc, loopForce, totalToProcess, processedSoFar, batchLimit,
    serverMovies, serverBatch, summary, startList, processedIds, others>>
markVars == <<markAt, markPage, markPc, markMovie, markNewId>>
windowVars == <<viewport, deletions>>
clientVars == <<trailerVars, markVars, windowVars>>

vars ==
  <<authVars, slugVars, homeVars, storeVars, detailVars, batchVars, loadVars,
    feedbackVars, clientVars>>

Absent == "undefined"

\* useState<Movie | null>(null)
NoMovie == [id |-> 0, title |-> <<>>]

\* What kv.get returns for a key that holds no user.
NoUser ==
  [id |-> 0, username |-> "", email |-> "", password |-> "",
   profilePicture |-> Absent, createdAt |-> 0]

(***************************************************************************)
(* Account management: POST /auth/signup, PATCH /auth/profile,             *)
(* POST /auth/reset-password.  Every request runs to completion here       *)
(* (no store operation fails, no other request interleaves).               *)
(***************************************************************************)

MaxUsers == 2

UserIds == 1..MaxUsers

\* Strings a client may send.  "" stands for a missing (falsy) field.
Usernames == {"alice", "Alice", "bob"}
Emails == {"a@x", "A@x", "b@x"}
Passwords == {"p1", "p2"}
Blank == "  "
Pictures == {"pic", ""}

\* String.prototype.toLowerCase on the strings above.
ToLowerCase(s) ==
  CASE s = "Alice" -> "alice"
    [] s = "A@x" -> "a@x"
    [] OTHER -> s

LowerNames == {ToLowerCase(u) : u \in Usernames}
LowerEmails == {ToLowerCase(e) : e \in Emails}

AuthIdle ==
  /\ kvUserId = <<>>
  /\ kvUserName = <<>>
  /\ kvUserEmail = <<>>
  /\ nextUserId = 0
  /\ authStatus = 0
  /\ handlers = <<>>

SlugIdle ==
  /\ title = <<>>
  /\ slug = <<>>
  /\ slugPhase = "idle"

HomeIdle ==
  /\ movies = <<>>
  /\ toWatchMovies = <<>>
  /\ currentView = "main"
  /\ selectedGenres = {}
  /\ selectedYears = {}
  /\ selectedTags = {}
  /\ searchQuery = <<>>
  /\ imdbRatingRange = <<0, 100>>
  /\ runtimeFilter = "all"
  /\ sortBy = "dateAdded"
  /\ currentPage = 1
  /\ rendered = "no"
  /\ displayMovies = <<>>

StoreIdle ==
  /\ kvMovie = <<>>
  /\ kvToWatch = <<>>

DetailIdle ==
  /\ titleSlug = <<>>
  /\ detailMovie = NoMovie
  /\ detailLoading = TRUE
  /\ loads = {}
  /\ similarMovies = {}

BatchIdle ==
  /\ endpoint = Absent
  /\ pc = "idle"
  /\ moviesToUpdate = <<>>
  /\ aborted = FALSE
  /\ status = 0

LoadIdle ==
  /\ kvRating = <<>>
  /\ requests = <<>>
  /\ localMovies = <<>>
  /\ localToWatch = <<>>
  /\ isLoading = TRUE

NoKey == <<0, 0>>
NoDeletion == [page |-> "", key |-> NoKey, status |-> 0]
NoPost == [movieId |-> 0, id |-> 0, status |-> 0]

CommentIdle ==
  /\ kvComment = {}
  /\ comments = {}
  /\ pendingDeleteCommentId = NoKey
  /\ deletion = NoDeletion
  /\ commentStatus = NoPost

RatingIdle ==
  /\ kvRatings = {}
  /\ accepted = <<>>
  /\ ratingStatus = 0
  /\ ratingsAnswer = <<>>

FeedbackIdle == CommentIdle /\ RatingIdle

NoSummary == [processed |-> 0, remaining |-> 0]

TrailerIdle ==
  /\ loopPc = "idle"
  /\ loopForce = FALSE
  /\ totalToProcess = 0
  /\ processedSoFar = 0
  /\ batchLimit = 0
  /\ serverMovies = <<>>
  /\ serverBatch = <<>>
  /\ summary = NoSummary
  /\ startList = <<>>
  /\ processedIds = {}
  /\ others = 0

MarkIdle ==
  /\ markAt = "home"
  /\ markPage = ""
  /\ markPc = "idle"
  /\ markMovie = NoMovie
  /\ markNewId = 0

WindowIdle ==
  /\ viewport = "mobile"
  /\ deletions = 0

ClientIdle == TrailerIdle /\ MarkIdle /\ WindowIdle

AuthInit ==
  /\ kvUserId = [i \in UserIds |-> NoUser]
  /\ kvUserName = [n \in LowerNames |-> NoUser]
  /\ kvUserEmail = [e \in LowerEmails |-> NoUser]
  /\ nextUserId = 1
  /\ authStatus = 0
  /\ handlers = <<>>
  /\ SlugIdle
  /\ HomeIdle
  /\ StoreIdle
  /\ DetailIdle
  /\ BatchIdle
  /\ LoadIdle
  /\ FeedbackIdle
  /\ ClientIdle

\* POST /auth/signup
Signup(username, email, password) ==
  IF username = "" \/ email = "" \/ password = ""
  THEN /\ authStatus' = 400
       /\ UNCHANGED <<kvUserId, kvUserName, kvUserEmail, nextUserId>>
  ELSE IF kvUserName[ToLowerCase(username)] # NoUser
  THEN /\ authStatus' = 400
       /\ UNCHANGED <<kvUserId, kvUserName, kvUserEmail, nextUserId>>
  ELSE IF kvUserEmail[ToLowerCase(email)] # NoUser
  THEN /\ authStatus' = 400
       /\ UNCHANGED <<kvUserId, kvUserName, kvUserEmail, nextUserId>>
  ELSE
    LET user == [id |-> nextUserId, username |-> username,
                 email |-> ToLowerCase(email), password |-> password,
                 profilePicture |-> Absent, createdAt |-> nextUserId]
    IN /\ nextUserId <= MaxUsers
       /\ kvUserId' = [kvUserId EXCEPT ![nextUserId] = user]
       /\ kvUserName' = [kvUserName EXCEPT ![ToLowerCase(username)] = user]
       /\ kvUserEmail' = [kvUserEmail EXCEPT ![ToLowerCase(email)] = user]
       /\ nextUserId' = nextUserId + 1
       /\ authStatus' = 200

\* The record PATCH /auth/profile holds in updatedUser when it writes the new
\* email mapping: only the email has been replaced at that point.
ProfileEmailCopy(user, email, password, profilePicture) ==
  [user EXCEPT !.email = ToLowerCase(email)]

\* The record PATCH /auth/profile holds in updatedUser at its final writes.
ProfileUpdatedUser(user, email, password, profilePicture) ==
  LET u1 == IF email # "" /\ email # user.email
            THEN [user EXCEPT !.email = ToLowerCase(email)] ELSE user
      u2 == IF password # "" /\ password # Blank
            THEN [u1 EXCEPT !.password = password] ELSE u1
  IN IF profilePicture # Absent
     THEN [u2 EXCEPT !.profilePicture = profilePicture] ELSE u2

\* PATCH /auth/profile
UpdateProfile(userId, email, password, profilePicture) ==
  IF userId = 0
  THEN /\ authStatus' = 400
       /\ UNCHANGED <<kvUserId, kvUserName, kvUserEmail, nextUserId>>
  ELSE IF kvUserId[userId] = NoUser
  THEN /\ authStatus' = 404
       /\ UNCHANGED <<kvUserId, kvUserName, kvUserEmail, nextUserId>>
  ELSE
    LET user == kvUserId[userId]
        changesEmail == email # "" /\ email # user.email
        emailLower == ToLowerCase(email)
        updatedUser == ProfileUpdatedUser(user, email, password, profilePicture)
    IN IF changesEmail /\ kvUserEmail[emailLower] # NoUser
                       /\ kvUserEmail[emailLower].id # userId
       THEN /\ authStatus' = 400
            /\ UNCHANGED <<kvUserId, kvUserName, kvUserEmail, nextUserId>>
       ELSE /\ kvUserEmail' =
                 IF changesEmail
                 THEN [[kvUserEmail EXCEPT ![ToLowerCase(user.email)] = NoUser]
                         EXCEPT ![emailLower] =
                           ProfileEmailCopy(user, email, password, profilePicture)]
                 ELSE [kvUserEmail EXCEPT ![ToLowerCase(user.email)] = updatedUser]
            /\ kvUserId' = [kvUserId EXCEPT ![userId] = updatedUser]
            /\ kvUserName' =
                 [kvUserName EXCEPT ![ToLowerCase(user.username)] = updatedUser]
            /\ authStatus' = 200
            /\ UNCHANGED nextUserId

\* POST /auth/reset-password
ResetPassword(email, newPassword) ==
  IF email = "" \/ newPassword = ""
  THEN /\ authStatus' = 400
       /\ UNCHANGED <<kvUserId, kvUserName, kvUserEmail, nextUserId>>
  ELSE IF kvUserEmail[ToLowerCase(email)] = NoUser
  THEN /\ authStatus' = 404
       /\ UNCHANGED <<kvUserId, kvUserName, kvUserEmail, nextUserId>>
  ELSE
    LET user == kvUserEmail[ToLowerCase(email)]
        updatedUser == [user EXCEPT !.password = newPassword]
    IN /\ kvUserId' = [kvUserId EXCEPT ![user.id] = updatedUser]
       /\ kvUserName' =
            [kvUserName EXCEPT ![ToLowerCase(user.username)] = updatedUser]
       /\ kvUserEmail' =
            [kvUserEmail EXCEPT ![ToLowerCase(user.email)] = updatedUser]
       /\ authStatus' = 200
       /\ UNCHANGED nextUserId

SignupRequest ==
  \E username \in Usernames \cup {""}, email \in Emails \cup {""},
     password \in Passwords \cup {""} :
    Signup(username, email, password)

UpdateProfileRequest ==
  \E userId \in UserIds \cup {0}, email \in Emails \cup {""},
     password \in Passwords \cup {"", Blank},
     profilePicture \in Pictures \cup {Absent} :
    UpdateProfile(userId, email, password, profilePicture)

ResetPasswordRequest ==
  \E email \in Emails \cup {""}, newPassword \in Passwords \cup {""} :
    ResetPassword(email, newPassword)

AuthFrame ==
  UNCHANGED <<handlers, slugVars, homeVars, storeVars, detailVars, batchVars,
              loadVars,
              feedbackVars, clientVars>>

AuthNext ==
  \/ SignupRequest /\ AuthFrame
  \/ UpdateProfileRequest /\ AuthFrame
  \/ ResetPasswordRequest /\ AuthFrame

SpecAuth == AuthInit /\ [][AuthNext]_vars

\* The three stored copies of the user with id i are the same record.
CopiesInSync(i) ==
  LET u == kvUserId[i]
  IN u # NoUser =>
       /\ kvUserName[ToLowerCase(u.username)] = u
       /\ kvUserEmail[ToLowerCase(u.email)] = u

\* C1: after any sequence of completed signup, profile-update and
\* reset-password requests, the three stored copies of every user
\* (by id, by lowercase username, by lowercase email) are identical records.
C1_CopiesIdentical == \A i \in UserIds : CopiesInSync(i)

(***************************************************************************)
(* Slug codec: createSlug(title).  A string is a sequence of characters;   *)
(* the alphabet has one character of every class the regular expressions   *)
(* of createSlug tell apart.                                               *)
(***************************************************************************)

MaxTitleLen == 4

LowerLetters == {"a"}
UpperLetters == {"B"}
Digits == {"7"}
Underscore == {"_"}
Whitespace == {" "}
Hyphen == {"-"}
Specials == {"!"}

Chars ==
  LowerLetters \cup UpperLetters \cup Digits \cup Underscore
    \cup Whitespace \cup Hyphen \cup Specials

\* \w of a JavaScript regular expression without the u flag: [A-Za-z0-9_]
WordChars == LowerLetters \cup UpperLetters \cup Digits \cup Underscore

Titles == UNION {[1..n -> Chars] : n \in 0..MaxTitleLen}

LowerChar(c) == IF c = "B" THEN "b" ELSE c

\* title.toLowerCase()
StrLower(s) == [i \in 1..Len(s) |-> LowerChar(s[i])]

\* .replace(/[^\w\s-]/g, '')
StripSpecial(s) ==
  SelectSeq(s, LAMBDA c :
    c \in WordChars \cup {"b"} \cup Whitespace \cup Hyphen)

\* s.replace(/X+/g, '-') for a character class X: every maximal run of
\* characters of X becomes one hyphen.
RECURSIVE ReplaceRuns(_, _)
ReplaceRuns(s, X) ==
  IF s = <<>> THEN <<>>
  ELSE IF Head(s) \in X
       THEN IF Len(s) > 1 /\ s[2] \in X
            THEN ReplaceRuns(Tail(s), X)
            ELSE <<"-">> \o ReplaceRuns(Tail(s), X)
       ELSE <<Head(s)>> \o ReplaceRuns(Tail(s), X)

\* String.prototype.trim(): strips leading and trailing whitespace.
RECURSIVE TrimLeft(_)
TrimLeft(s) ==
  IF s # <<>> /\ Head(s) \in Whitespace THEN TrimLeft(Tail(s)) ELSE s

RECURSIVE TrimRight(_)
TrimRight(s) ==
  IF s # <<>> /\ s[Len(s)] \in Whitespace
  THEN TrimRight(SubSeq(s, 1, Len(s) - 1)) ELSE s

Trim(s) == TrimRight(TrimLeft(s))

\* the two replacements of runs in the other order
createSlugHyphensFirst(t) ==
  Trim(ReplaceRuns(ReplaceRuns(StripSpecial(StrLower(t)), Hyphen), Whitespace))

createSlug(t) ==
  Trim(ReplaceRuns(ReplaceRuns(StripSpecial(StrLower(t)), Whitespace), Hyphen))

SlugInit ==
  /\ title \in Titles
  /\ slug = <<>>
  /\ slugPhase = "input"
  /\ AuthIdle
  /\ HomeIdle
  /\ StoreIdle
  /\ DetailIdle
  /\ BatchIdle
  /\ LoadIdle
  /\ FeedbackIdle
  /\ ClientIdle

\* A caller builds a link: slug = createSlug(movie.title)
Encode ==
  /\ slugPhase = "input"
  /\ slug' = createSlug(title)
  /\ slugPhase' = "encoded"
  /\ UNCHANGED title

SlugFrame ==
  UNCHANGED <<authVars, homeVars, storeVars, detailVars, batchVars, loadVars,
              feedbackVars, clientVars>>

SlugNext == Encode /\ SlugFrame

SpecSlug == SlugInit /\ [][SlugNext]_vars

\* The characters a slug may hold: lowercase word characters and the hyphen.
SlugChars == {"a", "b", "7", "_", "-"}

WellFormedSlug(s) ==
  /\ \A i \in 1..Len(s) : s[i] \in SlugChars
  /\ \A i \in 1..(Len(s) - 1) : ~(s[i] = "-" /\ s[i + 1] = "-")
  /\ s # <<>> => (s[1] # "-" /\ s[Len(s)] # "-")

\* C4: for all titles t, createSlug(t) contains only lowercase word
\* characters and single hyphens, and has no leading or trailing hyphen.
C4_SlugWellFormed == slugPhase = "encoded" => WellFormedSlug(slug)

\* C21: createSlug is idempotent: the slug of a slug is that slug.
C21_SlugIdempotent == slugPhase = "encoded" => createSlug(slug) = slug

\* C21 witness: a title that createSlug changes in case, in a stripped
\* character and in a run of whitespace next to a hyphen
C21_Witness ==
  /\ slugPhase = "encoded"
  /\ title = <<"B", "!", " ", "-">>
  /\ slug = <<"b", "-">>

(***************************************************************************)
(* Catalogue entries.  Text fields are sequences of characters over Chars; *)
(* ratings are in tenths of a point (86 is 8.6); a field an entry lacks    *)
(* holds the marker of its type.                                           *)
(***************************************************************************)

\* A numeric field that is undefined.
Missing == 0 - 1

\* A text field that is undefined.
NoText == <<"undefined">>

\* movie.runtime, a text "<n> <unit>" such as "95 min" or "2 Seasons":
\* n is the first integer in the text (Missing when it has no digit).
\* NoRuntime is an absent runtime, NumberUnit marks a runtime stored as a
\* number instead of a string.
NumberUnit == "#number"
NoRuntime == [n |-> Missing, unit |-> "undefined"]
EmptyRuntime == [n |-> Missing, unit |-> ""]
Runtime(n, unit) == [n |-> n, unit |-> unit]

\* JavaScript's a || b on numbers: undefined, NaN and 0 are falsy.
OrElse(a, b) == IF a = Missing \/ a = 0 THEN b ELSE a

\* text.includes(q)
Includes(text, q) ==
  \E i \in 1..(Len(text) + 1) :
    /\ i + Len(q) - 1 <= Len(text)
    /\ SubSeq(text, i, i + Len(q) - 1) = q

SeqRange(s) == {s[i] : i \in 1..Len(s)}

\* The filter parameters of the page as one record.
FilterParams ==
  [genres |-> selectedGenres, years |-> selectedYears, tags |-> selectedTags,
   query |-> searchQuery, range |-> imdbRatingRange, runtime |-> runtimeFilter]

\* parseRuntime(runtime), for a runtime that is a string or absent
parseRuntime(runtime) ==
  IF runtime = NoRuntime \/ runtime = EmptyRuntime THEN 0
  ELSE IF runtime.n = Missing THEN 0 ELSE runtime.n

\* movie.runtime && movie.runtime.toLowerCase().includes('season')
IsSeason(runtime) ==
  /\ runtime # NoRuntime
  /\ runtime # EmptyRuntime
  /\ runtime.unit \in {"Season", "Seasons", "season", "seasons"}

\* movie.runtime.includes('1 Season') || movie.runtime === '1 Seasons'
\* "<n> Season(s)" contains "1 Season" iff the last digit of n is 1.
IncludesOneSeason(runtime) ==
  /\ runtime.unit \in {"Season", "Seasons"}
  /\ runtime.n # Missing
  /\ runtime.n % 10 = 1

\* movie.runtime?.match(/(\d+)\s+Season/) with parseInt(seasonMatch[1]) > 1
MatchesMultiSeason(runtime) ==
  /\ runtime.unit \in {"Season", "Seasons"}
  /\ runtime.n # Missing
  /\ runtime.n > 1

\* A slip in the operand order: movie.rating || movie.imdbRating
EffectiveRatingLegacyFirst(movie) == OrElse(movie.rating, movie.imdbRating)

\* movie.imdbRating || movie.rating
EffectiveRating(movie) == OrElse(movie.imdbRating, movie.rating)

\* every selected genre, in place of some selected genre
GenreMatchEvery(movie, f) ==
  \A g \in f.genres : g \in SeqRange(movie.genre)

GenreMatch(movie, f) ==
  f.genres = {} \/ \E g \in f.genres : g \in SeqRange(movie.genre)

YearMatch(movie, f) == f.years = {} \/ movie.year \in f.years

\* The search predicate; the description is looked at only when the title
\* does not contain the query.
SearchMatch(movie, f) ==
  \/ f.query = <<>>
  \/ Includes(StrLower(movie.title), StrLower(f.query))
  \/ Includes(StrLower(movie.description), StrLower(f.query))

\* A comparison with undefined (NaN) is false.
RatingMatch(movie, f) ==
  LET movieRating == EffectiveRating(movie)
  IN /\ movieRating # Missing
     /\ movieRating >= f.range[1]
     /\ movieRating <= f.range[2]

RuntimeMatch(movie, f) ==
  LET runtimeMinutes == parseRuntime(movie.runtime)
      isSeason == IsSeason(movie.runtime)
  IN CASE f.runtime = "all" -> TRUE
       [] f.runtime = "short" ->
            ~isSeason /\ runtimeMinutes > 0 /\ runtimeMinutes <= 90
       [] f.runtime = "medium" ->
            ~isSeason /\ runtimeMinutes > 90 /\ runtimeMinutes <= 150
       [] f.runtime = "long" -> ~isSeason /\ runtimeMinutes > 150
       [] f.runtime = "oneSeason" ->
            isSeason /\ IncludesOneSeason(movie.runtime)
       [] f.runtime = "multiSeason" ->
            isSeason /\ MatchesMultiSeason(movie.runtime)
       [] OTHER -> TRUE

TagMatch(movie, f) == f.tags = {} \/ \E t \in f.tags : t \in movie.tags

\* The callback without its tag predicate
MoviePassesUntagged(movie, f) ==
  /\ GenreMatch(movie, f)
  /\ YearMatch(movie, f)
  /\ SearchMatch(movie, f)
  /\ RatingMatch(movie, f)
  /\ RuntimeMatch(movie, f)

\* The callback of filteredMovies' filter, for an entry on which it does not
\* throw.
MoviePasses(movie, f) ==
  /\ GenreMatch(movie, f)
  /\ YearMatch(movie, f)
  /\ SearchMatch(movie, f)
  /\ RatingMatch(movie, f)
  /\ RuntimeMatch(movie, f)
  /\ TagMatch(movie, f)

\* The callback throws a TypeError: movie.description.toLowerCase() on an
\* entry without description (reached when a query is set and the title does
\* not contain it), or runtime.match / runtime.toLowerCase on a runtime that
\* is not a string (reached when a runtime bucket is selected).
FilterThrows(movie, f) ==
  \/ /\ f.query # <<>>
     /\ ~Includes(StrLower(movie.title), StrLower(f.query))
     /\ movie.description = NoText
  \/ /\ f.runtime # "all"
     /\ movie.runtime.unit = NumberUnit

ActiveList == IF currentView = "towatch" THEN toWatchMovies ELSE movies

\* filteredMovies, when the callback throws on no entry
Filtered(list, f) == SelectSeq(list, LAMBDA m : MoviePasses(m, f))

filteredMovies == Filtered(ActiveList, FilterParams)

(***************************************************************************)
(* sortedMovies: [...filteredMovies].sort(comparator).                     *)
(* A comparator value is an integer, or NaN when an operand is undefined.  *)
(***************************************************************************)

SortOptions ==
  {"dateAdded", "dateAddedLatest", "title", "year", "imdbRating", "userRating",
   "communityRating"}

\* NaN, as a value no difference of two fields can take
NaN == 1000000

\* b - a on numbers that may be undefined
Minus(b, a) == IF a = Missing \/ b = Missing THEN NaN ELSE b - a

\* Collation of the root locale: whitespace, punctuation, digits, letters;
\* letters differing only in case are equal at the first level, and the
\* lowercase letter comes first at the last level.
PrimaryRank(c) ==
  CASE c = " " -> 1 [] c = "_" -> 2 [] c = "-" -> 3 [] c = "!" -> 4
    [] c = "7" -> 5 [] c = "a" -> 6 [] c \in {"b", "B"} -> 7 [] OTHER -> 8

CaseRank(c) == IF c \in UpperLetters THEN 1 ELSE 0

RECURSIVE LexCompare(_, _)
LexCompare(x, y) ==
  IF x = <<>> /\ y = <<>> THEN 0
  ELSE IF x = <<>> THEN 0 - 1
  ELSE IF y = <<>> THEN 1
  ELSE IF Head(x) < Head(y) THEN 0 - 1
  ELSE IF Head(x) > Head(y) THEN 1
  ELSE LexCompare(Tail(x), Tail(y))

\* a.localeCompare(b)
LocaleCompare(a, b) ==
  LET prim == LexCompare([i \in 1..Len(a) |-> PrimaryRank(a[i])],
                         [i \in 1..Len(b) |-> PrimaryRank(b[i])])
  IN IF prim # 0 THEN prim
     ELSE LexCompare([i \in 1..Len(a) |-> CaseRank(a[i])],
                     [i \in 1..Len(b) |-> CaseRank(b[i])])

\* The comparator of sortedMovies for the sort key `key`.
Comparator(a, b, key) ==
  CASE key = "dateAdded" -> Minus(b.id, a.id)
    [] key = "dateAddedLatest" -> Minus(a.id, b.id)
    [] key = "title" -> LocaleCompare(a.title, b.title)
    [] key = "year" -> Minus(b.year, a.year)
    [] key = "imdbRating" -> Minus(EffectiveRating(b), EffectiveRating(a))
    [] key = "userRating" -> Minus(OrElse(b.userRating, 0), OrElse(a.userRating, 0))
    [] key = "communityRating" ->
         Minus(OrElse(b.communityRating, 0), OrElse(a.communityRating, 0))
    [] OTHER -> 0

\* SortCompare of Array.prototype.sort: a NaN from the comparator is +0.
SortCompare(a, b, key) ==
  LET v == Comparator(a, b, key) IN IF v = NaN THEN 0 ELSE v

\* The comparator is a consistent comparator for the elements of list.
Consistent(list, key) ==
  \A i, j, k \in 1..Len(list) :
    LET ab == SortCompare(list[i], list[j], key)
        bc == SortCompare(list[j], list[k], key)
        ac == SortCompare(list[i], list[k], key)
    IN /\ (ab = 0 /\ bc = 0) => ac = 0
       /\ (ab < 0 /\ bc < 0) => ac < 0
       /\ (ab > 0 /\ bc > 0) => ac > 0

IndexPermutations(n) ==
  {q \in [1..n -> 1..n] : \A i, j \in 1..n : q[i] = q[j] => i = j}

\* The position a stable sort gives the k-th element of list.
StablePosition(list, k, key) ==
  1 + Cardinality({j \in 1..Len(list) :
        \/ SortCompare(list[j], list[k], key) < 0
        \/ SortCompare(list[j], list[k], key) = 0 /\ j < k})

\* The lists [...list].sort(comparator) may return: the stable sort when the
\* comparator is consistent, an implementation-defined order otherwise.
SortOutcomes(list, key) ==
  IF Consistent(list, key)
  THEN {[p \in 1..Len(list) |->
           list[CHOOSE k \in 1..Len(list) : StablePosition(list, k, key) = p]]}
  ELSE {[p \in 1..Len(list) |-> list[q[p]]] : q \in IndexPermutations(Len(list))}

\* One render of the page: filteredMovies, then sortedMovies.
Render ==
  /\ rendered = "no"
  /\ IF \E i \in 1..Len(ActiveList) : FilterThrows(ActiveList[i], FilterParams)
     THEN /\ rendered' = "threw"
          /\ displayMovies' = <<>>
     ELSE /\ rendered' = "yes"
          /\ displayMovies' \in SortOutcomes(filteredMovies, sortBy)
  /\ UNCHANGED <<listVars, currentView, filterVars, sortBy, currentPage>>

(***************************************************************************)
(* The render as a function of its inputs: the list and the parameters are *)
(* drawn from bounded sets and Render computes the page's list once.       *)
(***************************************************************************)

MaxFilterLen == 2
MaxSortLen == 3

GenreOptions == {"Crime", "Drama"}
YearOptions == {1995, 2003}
TagOptions == {"fav"}
Queries == {<<>>, <<"B">>}
RuntimeOptions == {"all", "short", "medium", "long", "oneSeason", "multiSeason"}
\* The slider sets <<lo, 10>>, lo a multiple of 0.5 in 0..10.
RatingRanges == {<<0, 100>>, <<50, 100>>}

\* Entries as the store may hold them: E1..E3 and E5 as the application
\* writes them, E4 and E6 with fields missing or of the wrong type.
EntryPool ==
  { [id |-> 5, title |-> <<"a", "B">>, description |-> <<"7">>,
     genre |-> <<"Crime", "Drama">>, year |-> 1995, rating |-> 86,
     imdbRating |-> 86, runtime |-> Runtime(95, "min"), tags |-> {"fav"},
     userRating |-> 4, communityRating |-> 40],
    [id |-> 7, title |-> <<"a">>, description |-> <<"b">>,
     genre |-> <<"Drama">>, year |-> 2003, rating |-> 37,
     imdbRating |-> Missing, runtime |-> Runtime(1, "Season"), tags |-> {},
     userRating |-> Missing, communityRating |-> Missing],
    [id |-> 3, title |-> <<"B", "7">>, description |-> <<"a">>,
     genre |-> <<"Crime">>, year |-> 1995, rating |-> 70,
     imdbRating |-> 0, runtime |-> Runtime(160, "min"), tags |-> {"fav"},
     userRating |-> 4, communityRating |-> 30],
    [id |-> 9, title |-> <<"7">>, description |-> NoText,
     genre |-> <<>>, year |-> Missing, rating |-> 86,
     imdbRating |-> Missing, runtime |-> NoRuntime, tags |-> {},
     userRating |-> 0, communityRating |-> Missing],
    [id |-> 2, title |-> <<"b", "7">>, description |-> <<"a">>,
     genre |-> <<"Drama">>, year |-> 2003, rating |-> 10,
     imdbRating |-> 86, runtime |-> Runtime(3, "Seasons"), tags |-> {},
     userRating |-> Missing, communityRating |-> 40],
    [id |-> 4, title |-> <<"a", "7">>, description |-> <<"b">>,
     genre |-> <<"Crime">>, year |-> 2003, rating |-> Missing,
     imdbRating |-> Missing, runtime |-> Runtime(95, NumberUnit), tags |-> {},
     userRating |-> Missing, communityRating |-> Missing] }

\* The lists of at most n distinct entries of the pool, in any order.
EntryLists(n) ==
  UNION {{l \in [1..k -> EntryPool] : \A i, j \in 1..k : l[i] = l[j] => i = j}
         : k \in 0..n}

\* Inputs that exercise the filter: every filter parameter varies.
FilterInputs ==
  /\ movies \in EntryLists(MaxFilterLen)
  /\ selectedGenres \in SUBSET GenreOptions
  /\ selectedYears \in SUBSET YearOptions
  /\ selectedTags \in SUBSET TagOptions
  /\ searchQuery \in Queries
  /\ imdbRatingRange \in RatingRanges
  /\ runtimeFilter \in RuntimeOptions
  /\ sortBy = "dateAdded"

\* Inputs that exercise the sort: longer lists and every sort key, under
\* the rating range alone.
SortInputs ==
  /\ movies \in EntryLists(MaxSortLen)
  /\ selectedGenres = {}
  /\ selectedYears = {}
  /\ selectedTags = {}
  /\ searchQuery = <<>>
  /\ imdbRatingRange \in RatingRanges
  /\ runtimeFilter = "all"
  /\ sortBy \in SortOptions

RenderInit ==
  /\ FilterInputs \/ SortInputs
  /\ toWatchMovies = <<>>
  /\ currentView = "main"
  /\ currentPage = 1
  /\ rendered = "no"
  /\ displayMovies = <<>>
  /\ AuthIdle
  /\ SlugIdle
  /\ StoreIdle
  /\ DetailIdle
  /\ BatchIdle
  /\ LoadIdle
  /\ FeedbackIdle
  /\ ClientIdle

RenderFrame ==
  UNCHANGED <<authVars, slugVars, storeVars, detailVars, batchVars, loadVars,
              feedbackVars, clientVars>>

RenderNext == Render /\ RenderFrame

SpecRender == RenderInit /\ [][RenderNext]_vars

\* C7: the filter and sort stages never throw for any entry that has a
\* title, whatever other fields are missing or malformed and whatever filter
\* parameters are active.
C7_NeverThrows == rendered # "threw"

\* The other five predicates of the filter.
OtherPredicates(movie, f) ==
  /\ GenreMatch(movie, f)
  /\ YearMatch(movie, f)
  /\ SearchMatch(movie, f)
  /\ RuntimeMatch(movie, f)
  /\ TagMatch(movie, f)

\* The rendered list is what the rating-range filter and the imdbRating sort
\* give when both read the rating Eff(m) of an entry m.
RatingStagesUse(Eff(_)) ==
  rendered = "yes" =>
    /\ \A i \in 1..Len(movies) :
         OtherPredicates(movies[i], FilterParams) =>
           (movies[i] \in SeqRange(displayMovies) <=>
              /\ Eff(movies[i]) # Missing
              /\ Eff(movies[i]) >= imdbRatingRange[1]
              /\ Eff(movies[i]) <= imdbRatingRange[2])
    /\ sortBy = "imdbRating" =>
         \A i, j \in 1..Len(displayMovies) :
           i < j => Eff(displayMovies[i]) >= Eff(displayMovies[j])

\* imdbRating whenever the entry has one, any value in 0..10
ImdbWhenPresent(m) == IF m.imdbRating # Missing THEN m.imdbRating ELSE m.rating

\* imdbRating when the entry has one and it is not 0
ImdbWhenNonZero(m) ==
  IF m.imdbRating # Missing /\ m.imdbRating # 0 THEN m.imdbRating ELSE m.rating

DocumentedKey(m, key) ==
  LET zero(v) == IF v = Missing THEN 0 ELSE v
  IN CASE key = "dateAdded" -> zero(m.id)
       [] key = "dateAddedLatest" -> 0 - zero(m.id)
       [] key = "year" -> zero(m.year)
       [] key = "imdbRating" -> zero(EffectiveRating(m))
       [] key = "userRating" -> zero(m.userRating)
       [] key = "communityRating" -> zero(m.communityRating)
       [] OTHER -> 0

DocumentedCompare(a, b, key) ==
  IF key = "title" THEN LocaleCompare(a.title, b.title)
  ELSE DocumentedKey(b, key) - DocumentedKey(a, key)

\* The position of the entry with the id of m in list
IndexIn(list, m) == CHOOSE i \in 1..Len(list) : list[i].id = m.id

\* out is a permutation of list, ordered by the documented comparator of key,
\* entries that compare equal in their order in list.
StablySorted(out, list, key) ==
  /\ Len(out) = Len(list)
  /\ SeqRange(out) = SeqRange(list)
  /\ \A i, j \in 1..Len(out) :
       i < j =>
         /\ DocumentedCompare(out[i], out[j], key) <= 0
         /\ DocumentedCompare(out[i], out[j], key) = 0 =>
              IndexIn(list, out[i]) < IndexIn(list, out[j])

\* C8: for every sort key, the sorted list is a permutation of the filtered
\* list ordered by that key's documented comparator, a missing numeric value
\* counting as 0, with entries that compare equal kept in their original
\* relative order.
C8_SortedByDocumentedComparator ==
  rendered = "yes" => StablySorted(displayMovies, filteredMovies, sortBy)

(***************************************************************************)
(* The catalogue page's handlers: filter controls, sort control, view      *)
(* switch and pagination, over lists of entries as the application creates *)
(* them (every field present).                                             *)
(***************************************************************************)

MaxMovies == 25
MaxToWatch == 13

MOVIES_PER_PAGE_MOBILE == 12
MOVIES_PER_PAGE_DESKTOP == 24

\* The i-th entry of the catalogue, as handleAddMovie builds entries.
CatalogEntry(i) ==
  [id |-> i,
   title |-> IF i % 2 = 0 THEN <<"a", "B">> ELSE <<"a">>,
   description |-> <<"7">>,
   genre |-> CASE i % 3 = 0 -> <<"Crime">>
               [] i % 3 = 1 -> <<"Drama">>
               [] OTHER -> <<"Crime", "Drama">>,
   year |-> IF i % 4 = 0 THEN 1995 ELSE 2003,
   rating |-> 70,
   imdbRating |-> IF i % 5 = 0 THEN 40 ELSE 86,
   runtime |-> CASE i % 7 = 0 -> Runtime(1, "Season")
                 [] i % 7 = 1 -> Runtime(3, "Seasons")
                 [] i % 7 = 2 -> Runtime(160, "min")
                 [] i % 7 = 3 -> Runtime(80, "min")
                 [] OTHER -> Runtime(95, "min"),
   tags |-> IF i % 3 = 0 THEN {"fav"} ELSE {},
   userRating |-> Missing,
   communityRating |-> Missing]

HomeInit ==
  /\ movies = [i \in 1..MaxMovies |-> CatalogEntry(i)]
  /\ toWatchMovies = [i \in 1..MaxToWatch |-> CatalogEntry(MaxMovies + i)]
  /\ currentView = "main"
  /\ selectedGenres = {}
  /\ selectedYears = {}
  /\ selectedTags = {}
  /\ searchQuery = <<>>
  /\ imdbRatingRange = <<0, 100>>
  /\ runtimeFilter = "all"
  /\ sortBy = "dateAdded"
  /\ currentPage = 1
  /\ rendered = "no"
  /\ displayMovies = <<>>
  /\ AuthIdle
  /\ SlugIdle
  /\ StoreIdle
  /\ DetailIdle
  /\ BatchIdle
  /\ LoadIdle
  /\ FeedbackIdle
  /\ ClientIdle

\* A checkbox of the sidebar: checked adds the value, unchecked removes it.
Toggle(selection, value, checked) ==
  IF checked THEN selection \cup {value} ELSE selection \ {value}

handleGenreChange(genre, checked) ==
  /\ checked <=> genre \notin selectedGenres
  /\ selectedGenres' = Toggle(selectedGenres, genre, checked)
  /\ currentPage' = 1
  /\ UNCHANGED <<listVars, currentView, selectedYears, selectedTags,
                 searchQuery, imdbRatingRange, runtimeFilter, sortBy,
                 renderVars>>

handleClearGenres ==
  /\ selectedGenres # {}
  /\ selectedGenres' = {}
  /\ currentPage' = 1
  /\ UNCHANGED <<listVars, currentView, selectedYears, selectedTags,
                 searchQuery, imdbRatingRange, runtimeFilter, sortBy,
                 renderVars>>

handleYearChange(year, checked) ==
  /\ checked <=> year \notin selectedYears
  /\ selectedYears' = Toggle(selectedYears, year, checked)
  /\ currentPage' = 1
  /\ UNCHANGED <<listVars, currentView, selectedGenres, selectedTags,
                 searchQuery, imdbRatingRange, runtimeFilter, sortBy,
                 renderVars>>

handleTagChange(tag, checked) ==
  /\ checked <=> tag \notin selectedTags
  /\ selectedTags' = Toggle(selectedTags, tag, checked)
  /\ currentPage' = 1
  /\ UNCHANGED <<listVars, currentView, selectedGenres, selectedYears,
                 searchQuery, imdbRatingRange, runtimeFilter, sortBy,
                 renderVars>>

\* onChange of the search box (and its clear button, value = '')
SearchChange(value) ==
  /\ value # searchQuery
  /\ searchQuery' = value
  /\ currentPage' = 1
  /\ UNCHANGED <<listVars, currentView, selectedGenres, selectedYears,
                 selectedTags, imdbRatingRange, runtimeFilter, sortBy,
                 renderVars>>

\* onImdbRatingChange = setImdbRatingRange: the slider sets the lower end.
ImdbRatingChange(range) ==
  /\ range # imdbRatingRange
  /\ imdbRatingRange' = range
  /\ UNCHANGED <<listVars, currentView, selectedGenres, selectedYears,
                 selectedTags, searchQuery, runtimeFilter, sortBy,
                 currentPage, renderVars>>

\* onRuntimeChange = setRuntimeFilter
RuntimeChange(bucket) ==
  /\ bucket # runtimeFilter
  /\ runtimeFilter' = bucket
  /\ UNCHANGED <<listVars, currentView, selectedGenres, selectedYears,
                 selectedTags, searchQuery, imdbRatingRange, sortBy,
                 currentPage, renderVars>>

\* a sort change that returns to the first page, as the filters do
SortChangeResetsPage(key) ==
  /\ key # sortBy
  /\ sortBy' = key
  /\ currentPage' = 1
  /\ UNCHANGED <<listVars, currentView, filterVars, renderVars>>

\* SortDropdown onChange = setSortBy
SortChange(key) ==
  /\ key # sortBy
  /\ sortBy' = key
  /\ UNCHANGED <<listVars, currentView, filterVars, currentPage, renderVars>>

FilterActive ==
  \/ selectedGenres # {}
  \/ selectedYears # {}
  \/ searchQuery # <<>>
  \/ selectedTags # {}
  \/ imdbRatingRange # <<0, 100>>
  \/ runtimeFilter # "all"

\* The reset button, shown while some filter is active.
ResetFilters ==
  /\ FilterActive
  /\ selectedGenres' = {}
  /\ selectedYears' = {}
  /\ searchQuery' = <<>>
  /\ selectedTags' = {}
  /\ imdbRatingRange' = <<0, 100>>
  /\ runtimeFilter' = "all"
  /\ currentPage' = 1
  /\ UNCHANGED <<listVars, currentView, sortBy, renderVars>>

\* The logo (main) and the Watchlist heading (towatch)
SwitchView(view) ==
  /\ currentView' = view
  /\ currentPage' = 1
  /\ UNCHANGED <<listVars, filterVars, sortBy, renderVars>>

\* Math.ceil(displayMovies.length / perPage)
TotalPages(count, perPage) == (count + perPage - 1) \div perPage

\* The pages the buttons of PaginationControls hand to onPageChange: first,
\* previous, the numbered pages, next, last (at most 7 pages: all numbered).
PageTargets(total) ==
  (1..total)
    \cup (IF currentPage = 1 THEN {} ELSE {currentPage - 1})
    \cup (IF currentPage >= total THEN {} ELSE {currentPage + 1})

\* onPageChange = setCurrentPage; both variants of the controls are rendered
\* (the viewport shows one of them), each when its page count exceeds 1.
ChangePageAt(perPage) ==
  LET total == TotalPages(Len(filteredMovies), perPage)
  IN /\ total > 1
     /\ \E p \in PageTargets(total) :
          /\ p # currentPage
          /\ currentPage' = p
     /\ UNCHANGED <<listVars, currentView, filterVars, sortBy, renderVars>>

ChangePage ==
  \E perPage \in {MOVIES_PER_PAGE_MOBILE, MOVIES_PER_PAGE_DESKTOP} :
    ChangePageAt(perPage)

HomeFrame ==
  UNCHANGED <<authVars, slugVars, storeVars, detailVars, batchVars, loadVars,
              feedbackVars, clientVars>>

HomeNext ==
  \/ \E g \in GenreOptions, checked \in BOOLEAN :
       handleGenreChange(g, checked) /\ HomeFrame
  \/ handleClearGenres /\ HomeFrame
  \/ \E y \in YearOptions, checked \in BOOLEAN :
       handleYearChange(y, checked) /\ HomeFrame
  \/ \E t \in TagOptions, checked \in BOOLEAN :
       handleTagChange(t, checked) /\ HomeFrame
  \/ \E q \in Queries : SearchChange(q) /\ HomeFrame
  \/ \E r \in RatingRanges : ImdbRatingChange(r) /\ HomeFrame
  \/ \E b \in RuntimeOptions : RuntimeChange(b) /\ HomeFrame
  \/ \E k \in SortOptions : SortChange(k) /\ HomeFrame
  \/ ResetFilters /\ HomeFrame
  \/ \E v \in {"main", "towatch"} : SwitchView(v) /\ HomeFrame
  \/ ChangePage /\ HomeFrame

SpecHome == HomeInit /\ [][HomeNext]_vars

\* C2: every step that changes a filter (genre, year or tag selection,
\* search query, IMDb rating range, runtime bucket) leaves the current page
\* number at 1.
C2_FilterChangeResetsPage ==
  [][FilterParams' # FilterParams => currentPage' = 1]_vars

\* A step activates predicates: the list filtered is the same, some filter
\* changes, and every filter that changes was inactive (no genre, year or tag
\* selected, empty query, bucket 'all') or is a rating range that narrows.
Activates ==
  /\ UNCHANGED <<listVars, currentView>>
  /\ FilterParams' # FilterParams
  /\ selectedGenres' = selectedGenres \/ selectedGenres = {}
  /\ selectedYears' = selectedYears \/ selectedYears = {}
  /\ selectedTags' = selectedTags \/ selectedTags = {}
  /\ searchQuery' = searchQuery \/ searchQuery = <<>>
  /\ imdbRatingRange'[1] >= imdbRatingRange[1]
  /\ imdbRatingRange'[2] <= imdbRatingRange[2]
  /\ runtimeFilter' = runtimeFilter \/ runtimeFilter = "all"

\* A step extends a selection: a further genre, year or tag is selected
\* where some were selected already, and nothing else changes.
Extends ==
  /\ UNCHANGED <<listVars, currentView, searchQuery, imdbRatingRange,
                 runtimeFilter>>
  /\ FilterParams' # FilterParams
  /\ selectedGenres \subseteq selectedGenres'
  /\ selectedYears \subseteq selectedYears'
  /\ selectedTags \subseteq selectedTags'
  /\ selectedGenres' = selectedGenres \/ selectedGenres # {}
  /\ selectedYears' = selectedYears \/ selectedYears # {}
  /\ selectedTags' = selectedTags \/ selectedTags # {}

\* C5 as stated: adding a predicate, a further genre, year or tag included,
\* never increases the number of entries in the filtered result.
C5_AddingNeverIncreases ==
  [][Activates \/ Extends => Len(filteredMovies') <= Len(filteredMovies)]_vars

\* C5 amended: activating a filter that was inactive, or narrowing the
\* rating range, never increases the number of entries in the filtered
\* result; selecting a further genre, year or tag where some are selected
\* already never decreases it.
C5_ActivatingNeverIncreases ==
  [][/\ Activates => Len(filteredMovies') <= Len(filteredMovies)
     /\ Extends => Len(filteredMovies') >= Len(filteredMovies)]_vars

\* C5 witness: a genre and then a further genre were selected and a year
\* filter activated, and the filtered result is a proper, non-empty part of
\* the list.
C5_Witness ==
  /\ selectedGenres = {"Crime", "Drama"}
  /\ selectedYears = {1995}
  /\ Len(filteredMovies) > 0
  /\ Len(filteredMovies) < Len(ActiveList)

(***************************************************************************)
(* The detail page: MovieDetailPage stays mounted while the route          *)
(* parameter :title changes; every change starts a call of loadMovieData,  *)
(* and the calls in flight complete in any order.  Other clients delete    *)
(* entries meanwhile.  The to-watch namespace is empty or holds one entry  *)
(* whose slug is that of two entries of the main list.                     *)
(***************************************************************************)

MaxLoads == 2

\* Two entries with the same slug and one whose title has a space.
DetailEntries ==
  { [id |-> 1, title |-> <<"a">>, genre |-> <<<<"B">>>>],
    [id |-> 2, title |-> <<"a", "!">>, genre |-> <<<<"a">>, <<" ", "b">>>>],
    [id |-> 3, title |-> <<"B", " ", "7">>, genre |-> <<<<"a">>>>] }

\* The slugs the page is opened with: those of the entries, and one no
\* entry has.
NavSlugs == {createSlug(e.title) : e \in DetailEntries} \cup {<<"7">>}

decodeSlug(s) ==
  StrLower([i \in 1..Len(s) |-> IF s[i] = "-" THEN " " ELSE s[i]])

\* The callback of allMoviesData.find
MatchesSlug(m, slugParam) ==
  \/ createSlug(m.title) = slugParam
  \/ StrLower(m.title) = decodeSlug(slugParam)

\* the last match in place of the first
FindLast(list, slugParam) ==
  LET hits == {i \in 1..Len(list) : MatchesSlug(list[i], slugParam)}
  IN IF hits = {} THEN NoMovie
     ELSE list[CHOOSE i \in hits : \A j \in hits : i >= j]

\* Array.prototype.find: the first match, or none
Find(list, slugParam) ==
  LET hits == {i \in 1..Len(list) : MatchesSlug(list[i], slugParam)}
  IN IF hits = {} THEN NoMovie
     ELSE list[CHOOSE i \in hits : \A j \in hits : i <= j]

\* The list of a call whose fetches have not answered yet.
NotFetched == <<NoMovie>>

\* The store when the page is opened: the three entries, the two with the
\* same slug in either order.
DetailStores ==
  {l \in [1..3 -> DetailEntries] :
     {l[1].id, l[2].id} = {1, 2} /\ l[3].id = 3}

\* A to-watch entry with the slug of entries 1 and 2
ToWatchEntry == [id |-> 4, title |-> <<"A">>, genre |-> <<<<"b">>>>]

DetailInit ==
  /\ kvMovie \in DetailStores
  /\ kvToWatch \in {<<>>, <<ToWatchEntry>>}
  /\ titleSlug \in NavSlugs
  /\ detailMovie = NoMovie
  /\ detailLoading = TRUE
  /\ loads = {[slug |-> titleSlug, list |-> NotFetched]}
  /\ similarMovies = {}
  /\ AuthIdle
  /\ SlugIdle
  /\ HomeIdle
  /\ BatchIdle
  /\ LoadIdle
  /\ FeedbackIdle
  /\ ClientIdle

\* The route parameter changes (a link of the page, the browser's back and
\* forward buttons): the effect on [titleSlug] calls loadMovieData, which
\* sets isLoading before its first await.
Navigate(s) ==
  /\ s # titleSlug
  /\ Cardinality(loads) < MaxLoads
  /\ titleSlug' = s
  /\ detailLoading' = TRUE
  /\ loads' = loads \cup {[slug |-> s, list |-> NotFetched]}
  /\ UNCHANGED <<detailMovie, similarMovies, storeVars>>

\* GET /movies and GET /towatch answer a call of loadMovieData.
FetchLists(l) ==
  /\ l.list = NotFetched
  /\ loads' = (loads \ {l}) \cup {[l EXCEPT !.list = kvMovie \o kvToWatch]}
  /\ UNCHANGED <<titleSlug, detailMovie, detailLoading, similarMovies,
                 storeVars>>

\* g.trim().toLowerCase() of a genre token
GenreToken(g) == StrLower(Trim(g))

\* foundMovie.genre.split(',')[0].trim().toLowerCase(); a genre is kept as
\* the sequence of its comma-separated tokens, <<>> standing for an empty
\* or absent (falsy) genre
FirstGenre(m) == GenreToken(m.genre[1])

\* the callback of allMoviesData.filter
IsSimilar(m, foundMovie) ==
  /\ m.id # foundMovie.id
  /\ m.genre # <<>>
  /\ \E i \in 1..Len(m.genre) : GenreToken(m.genre[i]) = FirstGenre(foundMovie)

\* allMoviesData.filter(...): the entries are told apart by their ids
SimilarFiltered(list, foundMovie) ==
  {list[i] : i \in {j \in 1..Len(list) : IsSimilar(list[j], foundMovie)}}

MaxSimilar == 5

\* filtered.sort(() => Math.random() - 0.5).slice(0, 5): any MaxSimilar
\* members of the filtered entries, all of them when there are fewer
Shuffled(filtered) ==
  {pick \in SUBSET filtered :
     Cardinality(pick) =
       IF Cardinality(filtered) < MaxSimilar
       THEN Cardinality(filtered) ELSE MaxSimilar}

\* loadMovieData after its awaits: find; when found setMovie and, for an
\* entry with a genre, setSimilarMovies; setIsLoading(false).
FinishLoad(l) ==
  /\ l.list # NotFetched
  /\ LET foundMovie == Find(l.list, l.slug)
     IN /\ detailMovie' =
             IF foundMovie # NoMovie THEN foundMovie ELSE detailMovie
        /\ IF foundMovie # NoMovie /\ foundMovie.genre # <<>>
           THEN similarMovies' \in Shuffled(SimilarFiltered(l.list, foundMovie))
           ELSE UNCHANGED similarMovies
  /\ detailLoading' = FALSE
  /\ loads' = loads \ {l}
  /\ UNCHANGED <<titleSlug, storeVars>>

\* A fetch of loadMovieData rejects: the catch block.
FailLoad(l) ==
  /\ l.list = NotFetched
  /\ detailLoading' = FALSE
  /\ loads' = loads \ {l}
  /\ UNCHANGED <<titleSlug, detailMovie, similarMovies, storeVars>>

\* DELETE /movies/:id, sent by another client
DeleteMovie(e) ==
  /\ \E i \in 1..Len(kvMovie) : kvMovie[i] = e
  /\ kvMovie' = SelectSeq(kvMovie, LAMBDA m : m # e)
  /\ UNCHANGED <<kvToWatch, detailVars>>

DetailFrame == UNCHANGED <<authVars, slugVars, homeVars, batchVars, loadVars,
              feedbackVars, clientVars>>

DetailNext ==
  \/ \E s \in NavSlugs : Navigate(s) /\ DetailFrame
  \/ \E l \in loads : FetchLists(l) /\ DetailFrame
  \/ \E l \in loads : FinishLoad(l) /\ DetailFrame
  \/ \E l \in loads : FailLoad(l) /\ DetailFrame
  \/ \E e \in DetailEntries : DeleteMovie(e) /\ DetailFrame

SpecDetail == DetailInit /\ [][DetailNext]_vars

\* What the component returns: the spinner, 'Movie not found', or the entry.
DetailView ==
  IF detailLoading THEN "loading"
  ELSE IF detailMovie = NoMovie THEN "notFound" ELSE "movie"

\* C3: when the load for the current slug completes, no other load being in
\* flight, and no entry of the list it fetched matches the slug, the view is
\* 'not found' and no entry is displayed.
C3_NotFoundWhenNoMatch ==
  [][\A l \in loads :
       (/\ FinishLoad(l)
        /\ l.slug = titleSlug
        /\ Find(l.list, l.slug) = NoMovie
        /\ loads' = {})
         => DetailView' = "notFound"]_vars

\* C20: a call of loadMovieData that finds a match displays the first entry
\* of the list it fetched (the main entries followed by the to-watch
\* entries) whose slug is the route parameter or whose lowercased title is
\* the decoded parameter, whatever the number of matching entries.
C20_FirstMatchDisplayed ==
  [][\A l \in loads :
       (/\ FinishLoad(l)
        /\ \E i \in 1..Len(l.list) : MatchesSlug(l.list[i], l.slug))
         => \E i \in 1..Len(l.list) :
              /\ detailMovie' = l.list[i]
              /\ MatchesSlug(l.list[i], l.slug)
              /\ \A j \in 1..(i - 1) : ~MatchesSlug(l.list[j], l.slug)]_vars

\* C20 witness: the slug 'a' matches two main entries and the to-watch
\* entry, and the page shows the entry the store lists first
C20_Witness ==
  /\ loads = {}
  /\ ~detailLoading
  /\ titleSlug = <<"a">>
  /\ Len(kvMovie) = 3
  /\ kvMovie[1].id = 2
  /\ kvToWatch = <<ToWatchEntry>>
  /\ detailMovie = kvMovie[1]

(***************************************************************************)
(* The batch endpoints POST /movies/fix-plots and                          *)
(* POST /movies/fetch-all-trailers: one request, its handler stepping from *)
(* await to await, and the client that may disconnect at any moment.  The  *)
(* store does not fail, and a call of kv.set takes effect when the handler *)
(* makes it.                                                               *)
(***************************************************************************)

MaxBatch == 2

\* parseInt(url.searchParams.get('limit') || '10')
DefaultLimit == 10

Endpoints == {"fix-plots", "fetch-all-trailers"}

\* A stored entry: whether it has an imdbId, its plot ("" or "full": a plot
\* of 100 characters or more), its trailer ("" or "url").
BatchEntry(i) ==
  [id : {i}, imdbId : BOOLEAN, plot : {"", "full"}, trailer : {"", "url"}]

BatchStores ==
  {l \in [1..MaxBatch -> UNION {BatchEntry(i) : i \in 1..MaxBatch}] :
     \A i \in 1..MaxBatch : l[i].id = i}

\* The callbacks of movies.filter
NeedsUpdate(m, ep, force) ==
  IF ep = "fix-plots" THEN m.imdbId /\ m.plot # "full"
  ELSE force \/ m.trailer = ""

\* Array.prototype.slice(0, limit), limit >= 0
Slice(list, limit) ==
  SubSeq(list, 1, IF limit < Len(list) THEN limit ELSE Len(list))

BatchInit ==
  /\ kvMovie \in BatchStores
  /\ kvToWatch = <<>>
  /\ endpoint \in Endpoints
  /\ pc = "start"
  /\ moviesToUpdate = <<>>
  /\ aborted = FALSE
  /\ status = 0
  /\ AuthIdle
  /\ SlugIdle
  /\ HomeIdle
  /\ DetailIdle
  /\ LoadIdle
  /\ FeedbackIdle
  /\ ClientIdle

\* The client disconnects: the request's signal is aborted.
Abort ==
  /\ pc # "done"
  /\ ~aborted
  /\ aborted' = TRUE
  /\ UNCHANGED <<storeVars, endpoint, pc, moviesToUpdate, status>>

\* await kv.getByPrefix("movie:") returns: filter and slice.
GetByPrefix(limit, force) ==
  /\ pc = "start"
  /\ moviesToUpdate' =
       Slice(SelectSeq(kvMovie, LAMBDA m : NeedsUpdate(m, endpoint, force)),
             limit)
  /\ pc' = "loop"
  /\ UNCHANGED <<storeVars, endpoint, aborted, status>>

\* kv.set(`movie:${movie.id}`, ...) with the plot or the trailer filled in
KvSet(m) ==
  kvMovie' =
    [i \in 1..Len(kvMovie) |->
       IF kvMovie[i].id # m.id THEN kvMovie[i]
       ELSE IF endpoint = "fix-plots" THEN [m EXCEPT !.plot = "full"]
       ELSE [m EXCEPT !.trailer = "url"]]

\* The head of the for-loop: leave it when the list is exhausted or the
\* signal is aborted; otherwise run the body up to its first await, which is
\* the fetch (OMDb, or the IMDb page of an entry with an imdbId) or, for
\* fetch-all-trailers on an entry without imdbId, kv.set.
LoopHead ==
  /\ pc = "loop"
  /\ IF moviesToUpdate = <<>> \/ aborted
     THEN pc' = "respond" /\ UNCHANGED kvMovie
     ELSE IF endpoint = "fix-plots" \/ Head(moviesToUpdate).imdbId
     THEN pc' = "fetch" /\ UNCHANGED kvMovie
     ELSE pc' = "delay" /\ KvSet(Head(moviesToUpdate))
  /\ UNCHANGED <<kvToWatch, endpoint, moviesToUpdate, aborted, status>>

\* The fetch returns.  fix-plots writes when the answer has a plot, skips
\* the entry when it has none, and counts an error when the fetch throws;
\* fetch-all-trailers writes whatever the fetch gave (the search URL is the
\* fallback).
FetchReturns(outcome) ==
  /\ pc = "fetch"
  /\ IF endpoint = "fix-plots" /\ outcome = "none"
     THEN pc' = "delay" /\ UNCHANGED <<kvMovie, moviesToUpdate>>
     ELSE IF endpoint = "fix-plots" /\ outcome = "throws"
     THEN /\ pc' = "loop"
          /\ moviesToUpdate' = Tail(moviesToUpdate)
          /\ UNCHANGED kvMovie
     ELSE /\ pc' = "delay"
          /\ KvSet(Head(moviesToUpdate))
          /\ UNCHANGED moviesToUpdate
  /\ UNCHANGED <<kvToWatch, endpoint, aborted, status>>

\* The 200 ms pause ends: next entry.
Delay ==
  /\ pc = "delay"
  /\ pc' = "loop"
  /\ moviesToUpdate' = Tail(moviesToUpdate)
  /\ UNCHANGED <<storeVars, endpoint, aborted, status>>

\* After the loop: 499 without body when the signal is aborted, else the
\* summary with 200.
Respond ==
  /\ pc = "respond"
  /\ pc' = "done"
  /\ status' = IF aborted THEN 499 ELSE 200
  /\ UNCHANGED <<storeVars, endpoint, moviesToUpdate, aborted>>

BatchFrame == UNCHANGED <<authVars, slugVars, homeVars, detailVars, loadVars,
              feedbackVars, clientVars>>

BatchNext ==
  \/ Abort /\ BatchFrame
  \/ \E limit \in (1..MaxBatch) \cup {DefaultLimit}, force \in BOOLEAN :
       GetByPrefix(limit, force) /\ BatchFrame
  \/ LoopHead /\ BatchFrame
  \/ \E outcome \in {"found", "none", "throws"} :
       FetchReturns(outcome) /\ BatchFrame
  \/ Delay /\ BatchFrame
  \/ Respond /\ BatchFrame

SpecBatch == BatchInit /\ [][BatchNext]_vars

\* C9: once the signal is aborted the handler writes nothing further to the
\* store (the writes made before stay), and its answer is 499.
C9_NoWriteAfterAbort ==
  [][/\ aborted => kvMovie' = kvMovie
     /\ (aborted' /\ pc' = "done") => status' = 499]_vars

(***************************************************************************)
(* The catalogue page's initial load: loadData sends the four requests at  *)
(* mount and their answers arrive in any order; a later loadMovies()       *)
(* reloads the main list.  The store does not change meanwhile, and the    *)
(* user has rated nothing (userRatings is empty).                          *)
(***************************************************************************)

MaxRatings == 2

RequestNames == {"movies", "towatch", "comments", "ratings"}

\* A stored entry; the fields the ratings are merged into start undefined.
LoadEntry(i) ==
  [id |-> i, communityRating |-> Missing, ratingCount |-> Missing]

\* The ratings one entry may have: at most MaxRatings values of 4..5.
RatingSeqs == UNION {[1..n -> 4..5] : n \in 0..MaxRatings}

RECURSIVE Sum(_)
Sum(rs) == IF rs = <<>> THEN 0 ELSE Head(rs) + Sum(Tail(rs))

\* GET /ratings: Math.round(average * 10) / 10, in tenths
Average(rs) == (20 * Sum(rs) + Len(rs)) \div (2 * Len(rs))

\* data.averages[m.id]?.average || undefined
AverageOf(id) ==
  IF kvRating[id] = <<>> THEN Missing
  ELSE OrElse(Average(kvRating[id]), Missing)

\* data.averages[m.id]?.count || undefined
CountOf(id) == OrElse(Len(kvRating[id]), Missing)

\* prevMovies.map(m => ({...m, communityRating, ratingCount, userRating}))
MergeRatings(list) ==
  [i \in 1..Len(list) |->
     [list[i] EXCEPT !.communityRating = AverageOf(list[i].id),
                     !.ratingCount = CountOf(list[i].id)]]

\* A value of localStorage that JSON.parse rejects
Unparsable == <<LoadEntry(0)>>

\* What an earlier visit left under 'movies': nothing, the present list, an
\* older list, or text that is not JSON
LocalCaches == {<<>>, <<LoadEntry(1), LoadEntry(2)>>, <<LoadEntry(1)>>, Unparsable}

\* a fallback that ignores the stored list
loadFromLocalStorageEmpty(stored) == <<>>

\* loadFromLocalStorage, loadToWatchFromLocalStorage: the list they set
loadFromLocalStorage(stored) ==
  IF stored = <<>> \/ stored = Unparsable THEN <<>> ELSE stored

LoadInit ==
  /\ kvMovie = <<LoadEntry(1), LoadEntry(2)>>
  /\ kvToWatch = <<LoadEntry(3)>>
  /\ kvRating \in [1..3 -> RatingSeqs]
  /\ requests = [r \in RequestNames |-> "sent"]
  /\ localMovies \in LocalCaches
  /\ localToWatch \in {<<>>, kvToWatch}
  /\ isLoading = TRUE
  /\ movies = <<>>
  /\ toWatchMovies = <<>>
  /\ currentView = "main"
  /\ selectedGenres = {}
  /\ selectedYears = {}
  /\ selectedTags = {}
  /\ searchQuery = <<>>
  /\ imdbRatingRange = <<0, 100>>
  /\ runtimeFilter = "all"
  /\ sortBy = "dateAdded"
  /\ currentPage = 1
  /\ rendered = "no"
  /\ displayMovies = <<>>
  /\ AuthIdle
  /\ SlugIdle
  /\ DetailIdle
  /\ BatchIdle
  /\ FeedbackIdle
  /\ ClientIdle

\* response.ok && data.success, or the catch block
Answered(ok) == IF ok THEN "done" ELSE "failed"

\* loadMovies after its fetch: the list and its copy in localStorage, or
\* loadFromLocalStorage() when the fetch rejected, the status was not 2xx
\* or the body had success false; setIsLoading(false) in the finally block.
MoviesArrive(ok) ==
  /\ requests["movies"] = "sent"
  /\ requests' = [requests EXCEPT !["movies"] = Answered(ok)]
  /\ movies' = IF ok THEN kvMovie ELSE loadFromLocalStorage(localMovies)
  /\ localMovies' = IF ok THEN kvMovie ELSE localMovies
  /\ isLoading' = FALSE
  /\ UNCHANGED <<toWatchMovies, localToWatch, kvRating, storeVars>>

\* loadToWatchMovies after its fetch
ToWatchArrive(ok) ==
  /\ requests["towatch"] = "sent"
  /\ requests' = [requests EXCEPT !["towatch"] = Answered(ok)]
  /\ toWatchMovies' = IF ok THEN kvToWatch ELSE loadFromLocalStorage(localToWatch)
  /\ localToWatch' = IF ok THEN kvToWatch ELSE localToWatch
  /\ UNCHANGED <<movies, localMovies, isLoading, kvRating, storeVars>>

\* loadComments after its fetch (the comments are not part of this model)
CommentsArrive(ok) ==
  /\ requests["comments"] = "sent"
  /\ requests' = [requests EXCEPT !["comments"] = Answered(ok)]
  /\ UNCHANGED <<listVars, localMovies, localToWatch, isLoading, kvRating,
                 storeVars>>

\* loadRatings after its fetches: the averages are merged into the lists the
\* page holds at that moment; a failed request is logged.
RatingsArrive(ok) ==
  /\ requests["ratings"] = "sent"
  /\ requests' = [requests EXCEPT !["ratings"] = Answered(ok)]
  /\ movies' = IF ok THEN MergeRatings(movies) ELSE movies
  /\ toWatchMovies' = IF ok THEN MergeRatings(toWatchMovies) ELSE toWatchMovies
  /\ UNCHANGED <<localMovies, localToWatch, isLoading, kvRating, storeVars>>

\* A later loadMovies(): after a runtime or trailer batch run, for instance;
\* setIsLoading(true) before the fetch
ReloadMovies ==
  /\ \A r \in RequestNames : requests[r] # "sent"
  /\ requests' = [requests EXCEPT !["movies"] = "sent"]
  /\ isLoading' = TRUE
  /\ UNCHANGED <<listVars, localMovies, localToWatch, kvRating, storeVars>>

LoadFrame ==
  UNCHANGED <<authVars, slugVars, detailVars, batchVars, currentView,
              filterVars, sortBy, currentPage, renderVars, feedbackVars,
              clientVars>>

LoadNext ==
  \/ \E ok \in BOOLEAN : MoviesArrive(ok) /\ LoadFrame
  \/ \E ok \in BOOLEAN : ToWatchArrive(ok) /\ LoadFrame
  \/ \E ok \in BOOLEAN : CommentsArrive(ok) /\ LoadFrame
  \/ \E ok \in BOOLEAN : RatingsArrive(ok) /\ LoadFrame
  \/ ReloadMovies /\ LoadFrame

SpecLoad == LoadInit /\ [][LoadNext]_vars

\* The entries of a displayed list carry the aggregate of the stored ratings.
ShowsAggregates(list) ==
  \A i \in 1..Len(list) :
    /\ list[i].communityRating = AverageOf(list[i].id)
    /\ list[i].ratingCount = CountOf(list[i].id)

\* C10: when the four requests of the initial load, and any later reload of
\* the main list, have been answered successfully, every displayed entry's
\* communityRating and ratingCount are the aggregate of its stored ratings.
C10_RatingsMergedAfterLoad ==
  (\A r \in RequestNames : requests[r] = "done")
    => ShowsAggregates(movies) /\ ShowsAggregates(toWatchMovies)

\* C24: when a load of the main list fails, the page shows the list
\* localStorage holds under 'movies' (the empty list when nothing is stored
\* or the text is not JSON), the stored copy stays as it was, and the
\* spinner is taken down so that the list is rendered.
C24_FallbackToLocalCache ==
  [][MoviesArrive(FALSE) =>
       /\ movies' = IF localMovies \in {<<>>, Unparsable}
                    THEN <<>> ELSE localMovies
       /\ localMovies' = localMovies
       /\ ~isLoading']_vars

\* C24 witness: the load failed and the page shows the one entry of an older
\* visit in place of the two the store holds
C24_Witness ==
  /\ requests["movies"] = "failed"
  /\ ~isLoading
  /\ localMovies = <<LoadEntry(1)>>
  /\ movies = localMovies
  /\ Len(kvMovie) = 2

(***************************************************************************)
(* Account requests that interleave: every handler advances from one store *)
(* operation to the next, and the handlers in flight take their steps in   *)
(* any order.  The requests here pass validation and change no password    *)
(* or picture.                                                             *)
(***************************************************************************)

MaxHandlers == 2

HandlerIds == 1..MaxHandlers

\* A user created by an earlier signup.
FirstUser ==
  [id |-> 1, username |-> "alice", email |-> "a@x", password |-> "p1",
   profilePicture |-> Absent, createdAt |-> 1]

\* The requests a handler may serve; userId 0 in a signup, username "" in a
\* profile update.
AccountRequests ==
  [op : {"signup"}, username : Usernames, email : Emails, userId : {0}]
    \cup [op : {"profile"}, username : {""}, email : Emails, userId : UserIds]

\* A handler before its first store operation.
Started(req) ==
  [op |-> req.op, username |-> req.username, email |-> req.email,
   userId |-> req.userId, user |-> NoUser,
   at |-> IF req.op = "signup" THEN "getUsername" ELSE "getUser",
   answer |-> 0]

\* The store is empty, or holds FirstUser.
RaceInit ==
  /\ \/ /\ kvUserId = [i \in UserIds |-> NoUser]
        /\ kvUserName = [n \in LowerNames |-> NoUser]
        /\ kvUserEmail = [e \in LowerEmails |-> NoUser]
        /\ nextUserId = 1
     \/ /\ kvUserId = [i \in UserIds |-> IF i = 1 THEN FirstUser ELSE NoUser]
        /\ kvUserName =
             [n \in LowerNames |-> IF n = "alice" THEN FirstUser ELSE NoUser]
        /\ kvUserEmail =
             [e \in LowerEmails |-> IF e = "a@x" THEN FirstUser ELSE NoUser]
        /\ nextUserId = 2
  /\ authStatus = 0
  /\ handlers \in [HandlerIds -> {Started(r) : r \in AccountRequests}]
  /\ SlugIdle
  /\ HomeIdle
  /\ StoreIdle
  /\ DetailIdle
  /\ BatchIdle
  /\ LoadIdle
  /\ FeedbackIdle
  /\ ClientIdle

\* Handler h moves to its next store operation, or answers.
Goto(h, at) == handlers' = [handlers EXCEPT ![h].at = at]
Answer(h, code) ==
  handlers' = [handlers EXCEPT ![h].at = "done", ![h].answer = code]

\* signup: kv.get(`user:username:${username.toLowerCase()}`)
SignupGetUsername(h) ==
  /\ handlers[h].at = "getUsername"
  /\ IF kvUserName[ToLowerCase(handlers[h].username)] # NoUser
     THEN Answer(h, 400)
     ELSE Goto(h, "getEmail")
  /\ UNCHANGED <<kvUserId, kvUserName, kvUserEmail, nextUserId, authStatus>>

\* signup: kv.get(`user:email:${email.toLowerCase()}`), then the user object
SignupGetEmail(h) ==
  /\ handlers[h].at = "getEmail"
  /\ IF kvUserEmail[ToLowerCase(handlers[h].email)] # NoUser
     THEN Answer(h, 400) /\ UNCHANGED nextUserId
     ELSE /\ nextUserId <= MaxUsers
          /\ handlers' =
               [handlers EXCEPT
                  ![h].at = "setId",
                  ![h].user =
                    [id |-> nextUserId, username |-> handlers[h].username,
                     email |-> ToLowerCase(handlers[h].email),
                     password |-> "p1", profilePicture |-> Absent,
                     createdAt |-> nextUserId]]
          /\ nextUserId' = nextUserId + 1
  /\ UNCHANGED <<kvUserId, kvUserName, kvUserEmail, authStatus>>

\* signup: kv.set(`user:id:${userId}`, user)
SignupSetId(h) ==
  /\ handlers[h].op = "signup"
  /\ handlers[h].at = "setId"
  /\ kvUserId' = [kvUserId EXCEPT ![handlers[h].user.id] = handlers[h].user]
  /\ Goto(h, "setUsername")
  /\ UNCHANGED <<kvUserName, kvUserEmail, nextUserId, authStatus>>

\* signup: kv.set(`user:username:${username.toLowerCase()}`, user)
SignupSetUsername(h) ==
  /\ handlers[h].op = "signup"
  /\ handlers[h].at = "setUsername"
  /\ kvUserName' =
       [kvUserName EXCEPT
          ![ToLowerCase(handlers[h].username)] = handlers[h].user]
  /\ Goto(h, "setEmail")
  /\ UNCHANGED <<kvUserId, kvUserEmail, nextUserId, authStatus>>

\* signup: kv.set(`user:email:${email.toLowerCase()}`, user), then the answer
SignupSetEmail(h) ==
  /\ handlers[h].op = "signup"
  /\ handlers[h].at = "setEmail"
  /\ kvUserEmail' =
       [kvUserEmail EXCEPT ![ToLowerCase(handlers[h].email)] = handlers[h].user]
  /\ Answer(h, 200)
  /\ UNCHANGED <<kvUserId, kvUserName, nextUserId, authStatus>>

\* profile: whether the request replaces the email of the user it read
ChangesEmail(h) == handlers[h].email # handlers[h].user.email

\* profile: updatedUser at the final writes of handler h
UpdatedUser(h) ==
  ProfileUpdatedUser(handlers[h].user, handlers[h].email, "", Absent)

\* profile: kv.get(`user:id:${userId}`)
ProfileGetUser(h) ==
  /\ handlers[h].at = "getUser"
  /\ LET user == kvUserId[handlers[h].userId]
     IN IF user = NoUser THEN Answer(h, 404)
        ELSE handlers' =
               [handlers EXCEPT
                  ![h].user = user,
                  ![h].at = IF handlers[h].email # user.email
                            THEN "getNewEmail" ELSE "setId"]
  /\ UNCHANGED <<kvUserId, kvUserName, kvUserEmail, nextUserId, authStatus>>

\* profile: kv.get(`user:email:${emailLower}`)
ProfileGetEmail(h) ==
  /\ handlers[h].at = "getNewEmail"
  /\ LET existingUserByEmail == kvUserEmail[ToLowerCase(handlers[h].email)]
     IN IF /\ existingUserByEmail # NoUser
           /\ existingUserByEmail.id # handlers[h].userId
        THEN Answer(h, 400)
        ELSE Goto(h, "delEmail")
  /\ UNCHANGED <<kvUserId, kvUserName, kvUserEmail, nextUserId, authStatus>>

\* profile: kv.del(`user:email:${user.email.toLowerCase()}`)
ProfileDelEmail(h) ==
  /\ handlers[h].at = "delEmail"
  /\ kvUserEmail' =
       [kvUserEmail EXCEPT ![ToLowerCase(handlers[h].user.email)] = NoUser]
  /\ Goto(h, "setNewEmail")
  /\ UNCHANGED <<kvUserId, kvUserName, nextUserId, authStatus>>

\* profile: kv.set(`user:email:${emailLower}`, updatedUser)
ProfileSetNewEmail(h) ==
  /\ handlers[h].at = "setNewEmail"
  /\ kvUserEmail' =
       [kvUserEmail EXCEPT
          ![ToLowerCase(handlers[h].email)] =
            ProfileEmailCopy(handlers[h].user, handlers[h].email, "", Absent)]
  /\ Goto(h, "setId")
  /\ UNCHANGED <<kvUserId, kvUserName, nextUserId, authStatus>>

\* profile: kv.set(`user:id:${userId}`, updatedUser)
ProfileSetId(h) ==
  /\ handlers[h].op = "profile"
  /\ handlers[h].at = "setId"
  /\ kvUserId' = [kvUserId EXCEPT ![handlers[h].userId] = UpdatedUser(h)]
  /\ Goto(h, "setUsername")
  /\ UNCHANGED <<kvUserName, kvUserEmail, nextUserId, authStatus>>

\* profile: kv.set(`user:username:${user.username.toLowerCase()}`,
\* updatedUser), then the answer when the email was replaced
ProfileSetUsername(h) ==
  /\ handlers[h].op = "profile"
  /\ handlers[h].at = "setUsername"
  /\ kvUserName' =
       [kvUserName EXCEPT
          ![ToLowerCase(handlers[h].user.username)] = UpdatedUser(h)]
  /\ IF ChangesEmail(h) THEN Answer(h, 200) ELSE Goto(h, "setEmail")
  /\ UNCHANGED <<kvUserId, kvUserEmail, nextUserId, authStatus>>

\* profile: kv.set(`user:email:${user.email.toLowerCase()}`, updatedUser)
\* when the email was not replaced, then the answer
ProfileSetEmail(h) ==
  /\ handlers[h].op = "profile"
  /\ handlers[h].at = "setEmail"
  /\ kvUserEmail' =
       [kvUserEmail EXCEPT
          ![ToLowerCase(handlers[h].user.email)] = UpdatedUser(h)]
  /\ Answer(h, 200)
  /\ UNCHANGED <<kvUserId, kvUserName, nextUserId, authStatus>>

RaceFrame ==
  UNCHANGED <<slugVars, homeVars, storeVars, detailVars, batchVars, loadVars,
              feedbackVars, clientVars>>

RaceNext ==
  \/ \E h \in HandlerIds : SignupGetUsername(h) /\ RaceFrame
  \/ \E h \in HandlerIds : SignupGetEmail(h) /\ RaceFrame
  \/ \E h \in HandlerIds : SignupSetId(h) /\ RaceFrame
  \/ \E h \in HandlerIds : SignupSetUsername(h) /\ RaceFrame
  \/ \E h \in HandlerIds : SignupSetEmail(h) /\ RaceFrame
  \/ \E h \in HandlerIds : ProfileGetUser(h) /\ RaceFrame
  \/ \E h \in HandlerIds : ProfileGetEmail(h) /\ RaceFrame
  \/ \E h \in HandlerIds : ProfileDelEmail(h) /\ RaceFrame
  \/ \E h \in HandlerIds : ProfileSetNewEmail(h) /\ RaceFrame
  \/ \E h \in HandlerIds : ProfileSetId(h) /\ RaceFrame
  \/ \E h \in HandlerIds : ProfileSetUsername(h) /\ RaceFrame
  \/ \E h \in HandlerIds : ProfileSetEmail(h) /\ RaceFrame

SpecRace == RaceInit /\ [][RaceNext]_vars

\* C11: no two distinct user ids hold the same username or the same email,
\* compared case-insensitively, under any interleaving of signup and
\* profile-update handlers.
C11_UniqueNamesAndEmails ==
  \A i, j \in UserIds :
    (i # j /\ kvUserId[i] # NoUser /\ kvUserId[j] # NoUser) =>
      /\ ToLowerCase(kvUserId[i].username) # ToLowerCase(kvUserId[j].username)
      /\ ToLowerCase(kvUserId[i].email) # ToLowerCase(kvUserId[j].email)


(***************************************************************************)
(* Deleting a comment.  The server stores a comment under                  *)
(* comment:<movieId>:<commentId> and deletes it on                         *)
(* DELETE /comments/:movieId/:commentId (index.tsx).  The catalogue page   *)
(* (App.tsx handleDeleteComment) sends that request.  The detail page      *)
(* (MovieDetailPage handleDeleteComment, handleDeletePasswordSubmit) sends *)
(* DELETE /comments/<commentId>, a path no route of the server matches:    *)
(* the framework answers 404 and no handler runs.  The store does not fail *)
(* in this model.                                                          *)
(***************************************************************************)
CommentMovieIds == 1..2
CommentIds == 1..2
CommentKeys == CommentMovieIds \X CommentIds
MasterPassword == "hassle"
DeletePasswords == {MasterPassword, "guess"}

CommentInit ==
  /\ kvComment \in SUBSET CommentKeys
  /\ comments = kvComment
  /\ pendingDeleteCommentId = NoKey
  /\ deletion = NoDeletion
  /\ commentStatus = NoPost
  /\ AuthIdle
  /\ SlugIdle
  /\ HomeIdle
  /\ StoreIdle
  /\ DetailIdle
  /\ BatchIdle
  /\ LoadIdle
  /\ RatingIdle
  /\ ClientIdle

\* app.delete("/comments/:movieId/:commentId"): kv.del of the key
DeleteCommentRoute(key) == kvComment \ {key}

\* GET /comments followed by setComments (loadComments of either page)
LoadComments ==
  /\ comments' = kvComment
  /\ UNCHANGED <<kvComment, pendingDeleteCommentId, deletion,
                 commentStatus>>

\* app.post("/comments") with body {movieId, id, ...}, 0 for a field the
\* body lacks; uuid is the value of crypto.randomUUID(), fresh by
\* construction.  The page that sent an accepted comment shows it.
AddComment(movieId, id, uuid) ==
  /\ (movieId # 0 /\ id = 0) => <<movieId, uuid>> \notin kvComment
  /\ IF movieId = 0
     THEN /\ commentStatus' = [movieId |-> movieId, id |-> id, status |-> 500]
          /\ UNCHANGED <<kvComment, comments>>
     ELSE LET commentId == IF id = 0 THEN uuid ELSE id
              key == <<movieId, commentId>>
          IN /\ kvComment' = kvComment \cup {key}
             /\ comments' = comments \cup {key}
             /\ commentStatus' =
                  [movieId |-> movieId, id |-> id, status |-> 200]
  /\ UNCHANGED <<pendingDeleteCommentId, deletion>>

\* catalogue page handleDeleteComment(movieId, commentId); ok is FALSE when
\* fetch throws before the request reaches the server
HomeDeleteComment(key, ok) ==
  /\ key \in comments
  /\ kvComment' = IF ok THEN DeleteCommentRoute(key) ELSE kvComment
  /\ comments' = comments \ {key}
  /\ deletion' = [page |-> "home", key |-> key,
                  status |-> IF ok THEN 200 ELSE 0]
  /\ UNCHANGED <<pendingDeleteCommentId, commentStatus>>

\* detail page: fetch(`${API_BASE_URL}/comments/${commentId}`, DELETE) and
\* the loadComments() that follows; the path has one segment after
\* /comments, the only DELETE route for comments has two
DetailDeleteRequest(key) ==
  /\ kvComment' = kvComment
  /\ comments' = kvComment
  /\ deletion' = [page |-> "detail", key |-> key, status |-> 404]

\* detail page handleDeleteComment(commentId, commentUsername): owner is
\* currentUser && currentUser.username === commentUsername, confirm is the
\* answer to window.confirm
DetailDeleteComment(key, owner, confirm) ==
  /\ key \in comments
  /\ IF owner
     THEN IF confirm
          THEN DetailDeleteRequest(key) /\ UNCHANGED pendingDeleteCommentId
          ELSE UNCHANGED <<kvComment, comments, pendingDeleteCommentId,
                           deletion>>
     ELSE /\ pendingDeleteCommentId' = key
          /\ UNCHANGED <<kvComment, comments, deletion>>
  /\ UNCHANGED commentStatus

\* detail page handleDeletePasswordSubmit with the text of the prompt
DetailDeletePasswordSubmit(deletePassword) ==
  /\ pendingDeleteCommentId # NoKey
  /\ IF deletePassword # MasterPassword
     THEN UNCHANGED <<kvComment, comments, pendingDeleteCommentId, deletion>>
     ELSE /\ DetailDeleteRequest(pendingDeleteCommentId)
          /\ UNCHANGED pendingDeleteCommentId
  /\ UNCHANGED commentStatus

CommentFrame ==
  UNCHANGED <<authVars, slugVars, homeVars, storeVars, detailVars, batchVars,
              loadVars, ratingVars, clientVars>>

CommentNext ==
  \/ LoadComments /\ CommentFrame
  \/ \E movieId \in {0} \cup CommentMovieIds, id \in {0} \cup CommentIds,
        uuid \in CommentIds :
       AddComment(movieId, id, uuid) /\ CommentFrame
  \/ \E key \in CommentKeys, ok \in BOOLEAN :
       HomeDeleteComment(key, ok) /\ CommentFrame
  \/ \E key \in CommentKeys, owner, confirm \in BOOLEAN :
       DetailDeleteComment(key, owner, confirm) /\ CommentFrame
  \/ \E deletePassword \in DeletePasswords :
       DetailDeletePasswordSubmit(deletePassword) /\ CommentFrame

SpecComment == CommentInit /\ [][CommentNext]_vars

\* C15: a POST /comments request that lacks a required field is answered
\* with status 400 (POST /ratings answers 400 in SubmitRating).
C15_InvalidCommentAnswered400 ==
  (commentStatus.status # 0 /\ commentStatus.movieId = 0)
    => commentStatus.status = 400

\* C12: when a deletion a user confirmed has been answered by the server,
\* the comment's record is gone from the store, whichever page sent it.
C12_DeletedCommentIsGone ==
  [][(deletion' # deletion /\ deletion'.status # 0)
       => deletion'.key \notin kvComment']_vars


(***************************************************************************)
(* Entry ids.  The add dialog (AddMovieDialog.handleSubmit) numbers a new  *)
(* entry one above the largest id of both lists of the page; marking a    *)
(* to-watch entry as watched (App.tsx handleMarkAsWatched, and             *)
(* MovieDetailPage handleMarkAsWatched) numbers the moved entry one above  *)
(* the largest id of the main list alone.  The server stores an entry      *)
(* under movie:<id> or towatch:<id>, replacing what the key held.          *)
(***************************************************************************)
MaxId == 3
IdTitles == {<<"a">>, <<"b">>}

\* Math.max(...list.map(m => m.id)) of a non-empty list, 0 of an empty one
MaxIdOf(list) ==
  IF Len(list) = 0 THEN 0
  ELSE CHOOSE n \in {list[i].id : i \in 1..Len(list)} :
         \A i \in 1..Len(list) : list[i].id <= n

\* kv.set(`<prefix>:${movie.id}`, movie): the key's value is replaced
Put(store, entry) ==
  IF \E i \in 1..Len(store) : store[i].id = entry.id
  THEN [i \in 1..Len(store) |->
          IF store[i].id = entry.id THEN entry ELSE store[i]]
  ELSE Append(store, entry)

\* kv.del(`<prefix>:${id}`), and list.filter(m => m.id !== id)
Without(list, id) == SelectSeq(list, LAMBDA m : m.id # id)

IdsInit ==
  /\ movies = <<>>
  /\ toWatchMovies = <<>>
  /\ currentView \in {"main", "towatch"}
  /\ selectedGenres = {}
  /\ selectedYears = {}
  /\ selectedTags = {}
  /\ searchQuery = <<>>
  /\ imdbRatingRange = <<0, 100>>
  /\ runtimeFilter = "all"
  /\ sortBy = "dateAdded"
  /\ currentPage = 1
  /\ rendered = "no"
  /\ displayMovies = <<>>
  /\ kvMovie = <<>>
  /\ kvToWatch = <<>>
  /\ AuthIdle
  /\ SlugIdle
  /\ DetailIdle
  /\ BatchIdle
  /\ LoadIdle
  /\ FeedbackIdle
  /\ ClientIdle

IdsUnchanged == UNCHANGED <<currentView, filterVars, sortBy, currentPage,
                            renderVars>>

\* AddMovieDialog.handleSubmit with an entry titled t, then handleAddMovie;
\* ok is FALSE when the request fails and only the page's list changes
AddMovie(t, ok) ==
  LET currentViewMovies ==
        IF currentView = "towatch" THEN toWatchMovies ELSE movies
      existingMovies == movies \o toWatchMovies
      newMovie == [id |-> MaxIdOf(existingMovies) + 1, title |-> t]
  IN /\ newMovie.id <= MaxId
     /\ IF \E i \in 1..Len(currentViewMovies) : currentViewMovies[i].title = t
        THEN UNCHANGED <<listVars, storeVars>>
        ELSE IF currentView = "towatch"
        THEN /\ toWatchMovies' = <<newMovie>> \o toWatchMovies
             /\ kvToWatch' = IF ok THEN Put(kvToWatch, newMovie) ELSE kvToWatch
             /\ UNCHANGED <<movies, kvMovie>>
        ELSE /\ movies' = <<newMovie>> \o movies
             /\ kvMovie' = IF ok THEN Put(kvMovie, newMovie) ELSE kvMovie
             /\ UNCHANGED <<toWatchMovies, kvToWatch>>
     /\ IdsUnchanged

\* App.tsx handleMarkAsWatched(movie) for the i-th to-watch entry
MarkAsWatched(i, ok) ==
  /\ i \in 1..Len(toWatchMovies)
  /\ LET movie == toWatchMovies[i]
         movieWithNewId == [movie EXCEPT !.id = MaxIdOf(movies) + 1]
     IN /\ movieWithNewId.id <= MaxId
        /\ movies' = <<movieWithNewId>> \o movies
        /\ toWatchMovies' = Without(toWatchMovies, movie.id)
        /\ kvMovie' = IF ok THEN Put(kvMovie, movieWithNewId) ELSE kvMovie
        /\ kvToWatch' = IF ok THEN Without(kvToWatch, movie.id) ELSE kvToWatch
  /\ IdsUnchanged

\* MovieDetailPage handleMarkAsWatched for the i-th stored to-watch entry,
\* then navigate('/') and the catalogue page's load
DetailMarkAsWatched(i) ==
  /\ i \in 1..Len(kvToWatch)
  /\ LET movie == kvToWatch[i]
         movieToAdd == [movie EXCEPT !.id = MaxIdOf(kvMovie) + 1]
     IN /\ movieToAdd.id <= MaxId
        /\ kvToWatch' = Without(kvToWatch, movie.id)
        /\ kvMovie' = Put(kvMovie, movieToAdd)
  /\ movies' = kvMovie'
  /\ toWatchMovies' = kvToWatch'
  /\ IdsUnchanged

IdsFrame ==
  UNCHANGED <<authVars, slugVars, detailVars, batchVars, loadVars,
              feedbackVars, clientVars>>

IdsNext ==
  \/ \E t \in IdTitles, ok \in BOOLEAN : AddMovie(t, ok) /\ IdsFrame
  \/ \E i \in 1..MaxId, ok \in BOOLEAN : MarkAsWatched(i, ok) /\ IdsFrame
  \/ \E i \in 1..MaxId : DetailMarkAsWatched(i) /\ IdsFrame
  \/ \E view \in {"main", "towatch"} :
       SwitchView(view) /\ UNCHANGED storeVars /\ IdsFrame

SpecIds == IdsInit /\ [][IdsNext]_vars

\* C13: no two stored entries share an id, within the main list, within the
\* to-watch list, or across the two.
C13_IdsUnique ==
  LET all == kvMovie \o kvToWatch
  IN \A i, j \in 1..Len(all) : i # j => all[i].id # all[j].id


(***************************************************************************)
(* Ratings.  POST /ratings stores a submission under                       *)
(* rating:<movieId>:<userIdentifier>; GET /ratings/:movieId answers with   *)
(* the records whose key starts with rating:<movieId>: and their average.  *)
(* Identifiers are sequences of characters, so that a key is the           *)
(* concatenation the code builds.  kv.set replaces the value of a key and  *)
(* kv.getByPrefix returns the values of the keys that start with the       *)
(* prefix.                                                                 *)
(***************************************************************************)
MaxSubmissions == 3
MinRating == 1
MaxRating == 5
RatingMovieIds == {<<"1">>, <<"1", "1">>}
RatingUsers == {<<"a">>, <<"1", ":", "a">>, <<"b">>}
\* entry 1 rated by each user, entry 11 by one
RatingPairs ==
  ({<<"1">>} \X RatingUsers) \cup {<<<<"1", "1">>, <<"a">>>>}
\* the pairs of a request, and the two with a missing field
RatingRequests == RatingPairs \cup {<<<<>>, <<"a">>>>, <<<<"1">>, <<>>>>}
\* the rating of a request: absent or 0, in range, above the range
RatingInputs == {0, 2, 4, 6}

\* `rating:${movieId}:${userIdentifier}`
RatingKeyByMovie(movieId, userIdentifier) == <<"rating:">> \o movieId \o <<":">>

RatingKey(movieId, userIdentifier) ==
  <<"rating:">> \o movieId \o <<":">> \o userIdentifier

\* `rating:${movieId}:`
RatingPrefix(movieId) == <<"rating:">> \o movieId \o <<":">>

StartsWith(key, prefix) ==
  /\ Len(prefix) <= Len(key)
  /\ SubSeq(key, 1, Len(prefix)) = prefix

\* kv.set(key, value) on a store of records that carry their key
KvSetRating(key, value) ==
  {r \in kvRatings : r.key # key} \cup {value}

\* kv.getByPrefix(`rating:${movieId}:`)
RatingsByPrefix(movieId) ==
  {r \in kvRatings : StartsWith(r.key, RatingPrefix(movieId))}

\* The accepted submissions so far, over all pairs
RECURSIVE TotalAccepted(_)
TotalAccepted(pairs) ==
  IF pairs = {} THEN 0
  ELSE LET p == CHOOSE x \in pairs : TRUE
       IN Len(accepted[p]) + TotalAccepted(pairs \ {p})

RECURSIVE SumOfRatings(_)
SumOfRatings(rs) ==
  IF rs = {} THEN 0
  ELSE LET r == CHOOSE x \in rs : TRUE
       IN r.rating + SumOfRatings(rs \ {r})

RatingInit ==
  /\ kvRatings = {}
  /\ accepted = [p \in RatingPairs |-> <<>>]
  /\ ratingStatus = 0
  /\ ratingsAnswer = [movieId |-> <<>>, average |-> 0, count |-> 0]
  /\ AuthIdle
  /\ SlugIdle
  /\ HomeIdle
  /\ StoreIdle
  /\ DetailIdle
  /\ BatchIdle
  /\ LoadIdle
  /\ CommentIdle
  /\ ClientIdle

\* app.post("/ratings"); an empty sequence is a missing field
SubmitRating(movieId, rating, userIdentifier) ==
  IF movieId = <<>> \/ rating = 0 \/ userIdentifier = <<>>
  THEN /\ ratingStatus' = 400
       /\ UNCHANGED <<kvRatings, accepted, ratingsAnswer>>
  ELSE IF rating < MinRating \/ rating > MaxRating
  THEN /\ ratingStatus' = 400
       /\ UNCHANGED <<kvRatings, accepted, ratingsAnswer>>
  ELSE /\ TotalAccepted(RatingPairs) < MaxSubmissions
       /\ kvRatings' =
            KvSetRating(RatingKey(movieId, userIdentifier),
                        [key |-> RatingKey(movieId, userIdentifier),
                         movieId |-> movieId, rating |-> rating,
                         userIdentifier |-> userIdentifier])
       /\ accepted' =
            [accepted EXCEPT ![<<movieId, userIdentifier>>] =
                               Append(@, rating)]
       /\ ratingStatus' = 200
       /\ UNCHANGED ratingsAnswer

\* the answer with the average cut to one decimal in place of rounded
GetRatingsTruncated(movieId) ==
  LET ratings == RatingsByPrefix(movieId)
      count == Cardinality(ratings)
  IN /\ ratingsAnswer' =
          [movieId |-> movieId,
           average |-> IF count > 0
                       THEN (10 * SumOfRatings(ratings)) \div count
                       ELSE 0,
           count |-> count]
     /\ UNCHANGED <<kvRatings, accepted, ratingStatus>>

\* app.get("/ratings/:movieId")
GetRatings(movieId) ==
  LET ratings == RatingsByPrefix(movieId)
      count == Cardinality(ratings)
  IN /\ ratingsAnswer' =
          [movieId |-> movieId,
           average |-> IF count > 0
                       THEN (20 * SumOfRatings(ratings) + count)
                              \div (2 * count)
                       ELSE 0,
           count |-> count]
     /\ UNCHANGED <<kvRatings, accepted, ratingStatus>>

RatingFrame ==
  UNCHANGED <<authVars, slugVars, homeVars, storeVars, detailVars, batchVars,
              loadVars, commentVars, clientVars>>

RatingNext ==
  \/ \E request \in RatingRequests, rating \in RatingInputs :
       SubmitRating(request[1], rating, request[2]) /\ RatingFrame
  \/ \E movieId \in RatingMovieIds : GetRatings(movieId) /\ RatingFrame

SpecRating == RatingInit /\ [][RatingNext]_vars

\* The last element of a non-empty sequence
Last(s) == s[Len(s)]

\* C14: for every pair with an accepted submission the store holds exactly
\* one record of the pair, its rating is the latest accepted one, and the
\* records GET /ratings/:movieId reads for the pair are that record alone.
C14_OneRecordPerPair ==
  \A p \in RatingPairs :
    accepted[p] # <<>> =>
      LET mine(r) == r.movieId = p[1] /\ r.userIdentifier = p[2]
          records == {r \in kvRatings : mine(r)}
          read == {r \in RatingsByPrefix(p[1]) : mine(r)}
      IN /\ Cardinality(records) = 1
         /\ \A r \in records : r.rating = Last(accepted[p])
         /\ read = records
         /\ \A r \in RatingsByPrefix(p[1]) : r.movieId = p[1]

\* C14 witness: a pair rated 4 and then 2 whose single record holds 2,
\* next to another user's record on the same entry
C14_Witness ==
  /\ accepted[<<<<"1">>, <<"a">>>>] = <<4, 2>>
  /\ accepted[<<<<"1">>, <<"1", ":", "a">>>>] # <<>>
  /\ \E r \in kvRatings :
       r.movieId = <<"1">> /\ r.userIdentifier = <<"a">> /\ r.rating = 2

\* The records of an entry
RecordsOf(movieId) == {r \in kvRatings : r.movieId = movieId}

\* a is the mean of the ratings rs in tenths, rounded to the nearest tenth
\* (a half rounds up)
IsRoundedMean(a, rs) ==
  /\ 2 * a * Cardinality(rs) <= 20 * SumOfRatings(rs) + Cardinality(rs)
  /\ 20 * SumOfRatings(rs) + Cardinality(rs) < 2 * (a + 1) * Cardinality(rs)

\* C22: the answer of GET /ratings/:movieId carries the number of records
\* stored for that entry and their mean rounded to one decimal, 0 when the
\* entry has no record.
C22_AverageAndCount ==
  [][\A movieId \in RatingMovieIds :
       GetRatings(movieId) =>
         /\ ratingsAnswer'.count = Cardinality(RecordsOf(movieId))
         /\ IF RecordsOf(movieId) = {}
            THEN ratingsAnswer'.average = 0
            ELSE IsRoundedMean(ratingsAnswer'.average,
                               RecordsOf(movieId))]_vars

\* C22 witness: ratings 4 and 2 of two users answered with 3.0 and 2 while
\* entry 11 has a rating of its own
C22_Witness ==
  /\ ratingsAnswer = [movieId |-> <<"1">>, average |-> 30, count |-> 2]
  /\ Cardinality(RecordsOf(<<"1">>)) = 2
  /\ RecordsOf(<<"1", "1">>) # {}

\* C22 witness of a mean that is rounded: 2, 4 and 4 answered with 3.3
C22_Rounded ==
  /\ ratingsAnswer = [movieId |-> <<"1">>, average |-> 33, count |-> 3]
  /\ Cardinality(RecordsOf(<<"1">>)) = 3


(***************************************************************************)
(* The runtime buckets.  One entry whose runtime is drawn from the texts   *)
(* the add dialog writes ("<n> min", "1 Season", "<n> Seasons"), a text    *)
(* without a number, the empty text and an absent runtime, rendered once   *)
(* under each bucket.                                                      *)
(***************************************************************************)
RuntimeNumbers == {0, 1, 2, 11, 90, 91, 150, 151, 152}
SeasonNumbers == {2, 11, 12}
RuntimeInputs ==
  {NoRuntime, EmptyRuntime, Runtime(Missing, "N/A")}
    \cup {Runtime(n, "min") : n \in RuntimeNumbers}
    \cup {Runtime(1, "Season")}
    \cup {Runtime(n, "Seasons") : n \in SeasonNumbers}

RuntimeEntry(i, runtime) ==
  [id |-> i, title |-> <<"a">>, description |-> <<"b">>,
   genre |-> <<"Drama">>, year |-> 2003, rating |-> 70, imdbRating |-> 70,
   runtime |-> runtime, tags |-> {}, userRating |-> Missing,
   communityRating |-> Missing]

RuntimeInit ==
  /\ \E r1, r2 \in RuntimeInputs :
       movies = <<RuntimeEntry(1, r1), RuntimeEntry(2, r2)>>
  /\ runtimeFilter \in RuntimeOptions
  /\ selectedGenres = {}
  /\ selectedYears = {}
  /\ selectedTags = {}
  /\ searchQuery = <<>>
  /\ imdbRatingRange = <<0, 100>>
  /\ sortBy = "dateAdded"
  /\ toWatchMovies = <<>>
  /\ currentView = "main"
  /\ currentPage = 1
  /\ rendered = "no"
  /\ displayMovies = <<>>
  /\ AuthIdle
  /\ SlugIdle
  /\ StoreIdle
  /\ DetailIdle
  /\ BatchIdle
  /\ LoadIdle
  /\ FeedbackIdle
  /\ ClientIdle

SpecRuntime == RuntimeInit /\ [][RenderNext]_vars

\* The bucket a runtime falls in, as documented: a length in minutes for an
\* entry that is not a series, a number of seasons for a series; a runtime
\* that is absent or holds no number falls in none.
InBucket(runtime, bucket) ==
  LET known == runtime # NoRuntime /\ runtime # EmptyRuntime
                 /\ runtime.n # Missing
      series == known /\ runtime.unit \in {"Season", "Seasons"}
      minutes == known /\ ~series
  IN CASE bucket = "short" -> minutes /\ runtime.n > 0 /\ runtime.n <= 90
       [] bucket = "medium" -> minutes /\ runtime.n > 90 /\ runtime.n <= 150
       [] bucket = "long" -> minutes /\ runtime.n > 150
       [] bucket = "oneSeason" -> series /\ runtime.n = 1
       [] bucket = "multiSeason" -> series /\ runtime.n > 1
       [] OTHER -> TRUE

\* C16: under a runtime bucket the rendered list holds exactly the entries
\* whose runtime falls in the bucket.
C16_RuntimeBuckets ==
  rendered = "yes" =>
    \A i \in 1..Len(movies) :
      movies[i] \in SeqRange(displayMovies)
        <=> InBucket(movies[i].runtime, runtimeFilter)


\* C17: an entry of the active list is in the rendered list exactly when it
\* matches the genre, year, search, rating, runtime and tag predicates; an
\* empty selection, an empty query and the runtime 'all' match every entry.
C17_InResultIffAllSix ==
  rendered = "yes" =>
    \A i \in 1..Len(ActiveList) :
      LET m == ActiveList[i]
      IN m \in SeqRange(displayMovies) <=>
           /\ selectedGenres = {} \/ GenreMatch(m, FilterParams)
           /\ selectedYears = {} \/ YearMatch(m, FilterParams)
           /\ searchQuery = <<>> \/ SearchMatch(m, FilterParams)
           /\ RatingMatch(m, FilterParams)
           /\ runtimeFilter = "all" \/ RuntimeMatch(m, FilterParams)
           /\ selectedTags = {} \/ TagMatch(m, FilterParams)

\* C17 witness: a render under a tag, a runtime bucket and a genre that
\* keeps one of two entries
C17_Witness ==
  /\ rendered = "yes"
  /\ selectedTags # {}
  /\ selectedGenres # {}
  /\ runtimeFilter # "all"
  /\ Len(movies) = 2
  /\ Len(displayMovies) = 1


(***************************************************************************)
(* The pages of the catalogue page: displayMovies.slice(startIndex,        *)
(* endIndex) for each of the two page sizes.                               *)
(***************************************************************************)

\* Array.prototype.slice(start, end) for 0 <= start <= end
SliceFrom(list, start, end) ==
  SubSeq(list, start + 1, IF end < Len(list) THEN end ELSE Len(list))

\* the slice that starts one page late
PaginatedMoviesFromNext(list, page, perPage) ==
  SliceFrom(list, page * perPage, page * perPage + perPage)

\* paginatedMoviesForMobile / paginatedMoviesForDesktop at page `page`
PaginatedMovies(list, page, perPage) ==
  LET startIndex == (page - 1) * perPage
      endIndex == startIndex + perPage
  IN SliceFrom(list, startIndex, endIndex)

\* Pages page..total of the list, one after the other
RECURSIVE PagesFrom(_, _, _, _)
PagesFrom(list, page, total, perPage) ==
  IF page > total THEN <<>>
  ELSE PaginatedMovies(list, page, perPage)
         \o PagesFrom(list, page + 1, total, perPage)

\* C19: a step that changes the sort key leaves the current page and every
\* filter selection as they were.
C19_SortKeepsPageAndFilters ==
  [][sortBy' # sortBy =>
       /\ currentPage' = currentPage
       /\ FilterParams' = FilterParams
       /\ currentView' = currentView]_vars

\* C19 witness: a sort key other than the initial one, on a page after the
\* first, with a genre selected
C19_Witness ==
  /\ sortBy # "dateAdded"
  /\ currentPage > 1
  /\ selectedGenres # {}

MaxPageLen == 60

\* The catalogue page after a render over a main list of n entries, no
\* filter active, sorted by 'dateAdded' (b.id - a.id: largest id first)
PagesInit ==
  /\ \E n \in 0..MaxPageLen :
       /\ movies = [i \in 1..n |-> CatalogEntry(i)]
       /\ displayMovies = [i \in 1..n |-> CatalogEntry(n + 1 - i)]
  /\ toWatchMovies = <<>>
  /\ currentView = "main"
  /\ selectedGenres = {}
  /\ selectedYears = {}
  /\ selectedTags = {}
  /\ searchQuery = <<>>
  /\ imdbRatingRange = <<0, 100>>
  /\ runtimeFilter = "all"
  /\ sortBy = "dateAdded"
  /\ currentPage = 1
  /\ rendered = "yes"
  /\ AuthIdle
  /\ SlugIdle
  /\ StoreIdle
  /\ DetailIdle
  /\ BatchIdle
  /\ LoadIdle
  /\ FeedbackIdle
  /\ ClientIdle

PagesNext == ChangePage /\ HomeFrame

SpecPages == PagesInit /\ [][PagesNext]_vars

\* C18: for either page size, the pages 1..totalPages of the sorted list,
\* one after the other, are the sorted list: every entry once, in order.
C18_PagesPartitionList ==
  \A perPage \in {MOVIES_PER_PAGE_MOBILE, MOVIES_PER_PAGE_DESKTOP} :
    PagesFrom(displayMovies, 1, TotalPages(Len(displayMovies), perPage),
              perPage) = displayMovies

\* C18 witness: the last, partial page of a list longer than a desktop page
\* is the one shown
C18_Witness ==
  /\ Len(displayMovies) > MOVIES_PER_PAGE_DESKTOP
  /\ Len(displayMovies) % MOVIES_PER_PAGE_MOBILE # 0
  /\ currentPage = TotalPages(Len(displayMovies), MOVIES_PER_PAGE_MOBILE)
  /\ PaginatedMovies(displayMovies, currentPage, MOVIES_PER_PAGE_MOBILE)
       # <<>>


(***************************************************************************)
(* The recommended list of the detail page: loadMovieData over a           *)
(* catalogue in which seven entries share a genre with entry 1, in upper   *)
(* and lower case, with and without blanks around the token, and one       *)
(* entry is stored without a genre (POST /movies stores the body it is     *)
(* sent; the page tests foundMovie.genre and m.genre before use).  The     *)
(* page stays mounted from one route parameter to the next.                *)
(***************************************************************************)

SimilarMain ==
  << [id |-> 1, title |-> <<"a">>, genre |-> <<<<"B">>>>],
     [id |-> 2, title |-> <<"7">>, genre |-> <<<<"a">>, <<" ", "b">>>>],
     [id |-> 3, title |-> <<"_">>, genre |-> <<<<"b">>>>],
     [id |-> 4, title |-> <<"a", "7">>, genre |-> <<<<"b", " ">>, <<"a">>>>],
     [id |-> 5, title |-> <<"7", "a">>, genre |-> <<<<"B">>, <<"a">>>>],
     [id |-> 6, title |-> <<"a", "a">>, genre |-> <<>>],
     [id |-> 7, title |-> <<"7", "7">>, genre |-> <<<<"a">>>>] >>

SimilarToWatch ==
  << [id |-> 8, title |-> <<"_", "a">>, genre |-> <<<<" ", "B", " ">>>>],
     [id |-> 9, title |-> <<"_", "7">>, genre |-> <<<<"b">>>>] >>

\* The slugs of the links followed: five entries, and one no entry has.
SimilarSlugs ==
  {createSlug(SimilarMain[i].title) : i \in {1, 2, 6, 7}}
    \cup {createSlug(SimilarToWatch[1].title), <<"_", "_">>}

SimilarInit ==
  /\ kvMovie = SimilarMain
  /\ kvToWatch = SimilarToWatch
  /\ titleSlug \in SimilarSlugs
  /\ detailMovie = NoMovie
  /\ detailLoading = TRUE
  /\ loads = {[slug |-> titleSlug, list |-> NotFetched]}
  /\ similarMovies = {}
  /\ AuthIdle
  /\ SlugIdle
  /\ HomeIdle
  /\ BatchIdle
  /\ LoadIdle
  /\ FeedbackIdle
  /\ ClientIdle

SimilarNext ==
  \/ \E s \in SimilarSlugs : Navigate(s) /\ DetailFrame
  \/ \E l \in loads : FetchLists(l) /\ DetailFrame
  \/ \E l \in loads : FinishLoad(l) /\ DetailFrame
  \/ \E l \in loads : FailLoad(l) /\ DetailFrame

SpecSimilar == SimilarInit /\ [][SimilarNext]_vars

\* The recommended section is on screen: the entry is rendered.
RecommendedShown == DetailView = "movie"

\* C23: whenever the page shows an entry, its recommended list has at most
\* five members, does not hold the entry shown, and each member has a genre
\* token equal, case-insensitively, to the first genre of the entry shown.
C23_RecommendedMembership ==
  RecommendedShown =>
    /\ Cardinality(similarMovies) <= 5
    /\ \A m \in similarMovies :
         /\ m.id # detailMovie.id
         /\ detailMovie.genre # <<>>
         /\ \E i \in 1..Len(m.genre) :
              GenreToken(m.genre[i]) = GenreToken(detailMovie.genre[1])

\* The same for the entries shown that have a genre
C23_MembershipWithGenre ==
  (RecommendedShown /\ detailMovie.genre # <<>>) =>
    /\ Cardinality(similarMovies) <= 5
    /\ \A m \in similarMovies :
         /\ m.id # detailMovie.id
         /\ \E i \in 1..Len(m.genre) :
              GenreToken(m.genre[i]) = GenreToken(detailMovie.genre[1])

\* Six entries match entry 1 and five of them are listed
C23_FiveOfSix ==
  /\ RecommendedShown
  /\ detailMovie.id = 1
  /\ Cardinality(similarMovies) = 5
  /\ Cardinality(SimilarFiltered(kvMovie \o kvToWatch, detailMovie)) = 6


(***************************************************************************)
(* The trailer batch loops of the catalogue page, handleLoadAllTrailers    *)
(* and handleForceReloadAllTrailers, against POST                          *)
(* /movies/fetch-all-trailers.  The page's list is the store's when the    *)
(* action starts.  The handler reads the store once and answers from what  *)
(* it read; its writes are taken at the moment of the answer, and the      *)
(* store does not fail.  Other clients set a trailer, delete an entry or   *)
(* add one between the steps.                                              *)
(***************************************************************************)

\* Math.min(10, remaining)
ClientBatch == 10

MaxCatalog == 21
MaxOthers == 2

TrailerEntry(i, has) == [id |-> i, trailer |-> IF has THEN "url" ELSE ""]

\* n entries, the first w of them with a trailer
TrailerStore(n, w) == [i \in 1..n |-> TrailerEntry(i, i <= w)]

CatalogSizes == {0, 1, MaxCatalog - 1, MaxCatalog}

TrailerStores ==
  {TrailerStore(n, w) : n \in CatalogSizes, w \in {0, 1}}
    \cup {TrailerStore(n, n) : n \in CatalogSizes}

\* movies.filter(m => !m.trailer || m.trailer.trim() === '')
Lacking(list) ==
  SelectSeq(list, LAMBDA m : NeedsUpdate(m, "fetch-all-trailers", FALSE))

IdsOf(list) == {list[i].id : i \in 1..Len(list)}

\* movie.trailer = trailerUrl
WithTrailer(m) == [m EXCEPT !.trailer = "url"]

\* kv.set(`movie:${movie.id}`, movie) for every entry of the batch, whose
\* ids differ: the keys that exist get the handler's entry, the keys another
\* client deleted meanwhile are created again
PutAll(store, batch) ==
  [i \in 1..Len(store) |->
     IF store[i].id \in IdsOf(batch)
     THEN WithTrailer(batch[CHOOSE j \in 1..Len(batch) :
                              batch[j].id = store[i].id])
     ELSE store[i]]
    \o SelectSeq([j \in 1..Len(batch) |-> WithTrailer(batch[j])],
                 LAMBDA m : m.id \notin IdsOf(store))

\* the handler's movies after the loop: the entries of the batch are the
\* objects of the list, and the loop has set their trailer
AfterLoop(list, batch) ==
  [i \in 1..Len(list) |->
     IF list[i].id \in IdsOf(batch) THEN WithTrailer(list[i]) ELSE list[i]]

\* summary: processed and remaining
Summary(list, batch) ==
  [processed |-> Len(batch),
   remaining |-> Len(Lacking(AfterLoop(list, batch))) - Len(batch)]

\* a loop that does not count what the server processed
AdvanceNever(soFar, data) == soFar

\* processedSoFar += data.summary.processed
Advance(soFar, data) == soFar + data.processed

TrailerInit ==
  /\ kvMovie \in TrailerStores
  /\ kvToWatch = <<>>
  /\ movies = kvMovie
  /\ toWatchMovies = <<>>
  /\ currentView = "main"
  /\ selectedGenres = {}
  /\ selectedYears = {}
  /\ selectedTags = {}
  /\ searchQuery = <<>>
  /\ imdbRatingRange = <<0, 100>>
  /\ runtimeFilter = "all"
  /\ sortBy = "dateAdded"
  /\ currentPage = 1
  /\ rendered = "no"
  /\ displayMovies = <<>>
  /\ kvRating = <<>>
  /\ requests = [r \in RequestNames |-> "done"]
  /\ localMovies = kvMovie
  /\ localToWatch = <<>>
  /\ isLoading = FALSE
  /\ TrailerIdle
  /\ MarkIdle
  /\ WindowIdle
  /\ AuthIdle
  /\ SlugIdle
  /\ DetailIdle
  /\ BatchIdle
  /\ FeedbackIdle

\* The user confirms: totalToProcess from the page's list.  Load-all returns
\* at once when no entry of the list lacks a trailer.
StartLoop(force) ==
  /\ loopPc = "idle"
  /\ loopForce' = force
  /\ startList' = movies
  /\ totalToProcess' = IF force THEN Len(movies) ELSE Len(Lacking(movies))
  /\ processedSoFar' = 0
  /\ loopPc' = IF ~force /\ Lacking(movies) = <<>> THEN "done" ELSE "head"
  /\ UNCHANGED <<batchLimit, serverMovies, serverBatch, summary, processedIds,
                 others, storeVars, listVars, loadVars>>

\* after the loop: await loadMovies(), which sets isLoading and fetches
ExitLoop ==
  /\ loopPc' = "reload"
  /\ requests' = [requests EXCEPT !["movies"] = "sent"]
  /\ isLoading' = TRUE

\* while (processedSoFar < totalToProcess): the next request, or the exit
LoopTest ==
  /\ loopPc = "head"
  /\ IF processedSoFar < totalToProcess
     THEN /\ batchLimit' =
               IF totalToProcess - processedSoFar < ClientBatch
               THEN totalToProcess - processedSoFar ELSE ClientBatch
          /\ loopPc' = "sent"
          /\ UNCHANGED <<requests, isLoading>>
     ELSE ExitLoop /\ UNCHANGED batchLimit
  /\ UNCHANGED <<loopForce, totalToProcess, processedSoFar, serverMovies,
                 serverBatch, summary, startList, processedIds, others,
                 storeVars, listVars, kvRating, localMovies, localToWatch>>

\* The handler: kv.getByPrefix("movie:"), filter, slice(0, limit)
HandlerReads ==
  /\ loopPc = "sent"
  /\ serverMovies' = kvMovie
  /\ serverBatch' =
       Slice(SelectSeq(kvMovie,
                       LAMBDA m : NeedsUpdate(m, "fetch-all-trailers",
                                              loopForce)),
             batchLimit)
  /\ loopPc' = "serving"
  /\ UNCHANGED <<loopForce, totalToProcess, processedSoFar, batchLimit,
                 summary, startList, processedIds, others, storeVars,
                 listVars, loadVars>>

\* The handler's loop and its answer
HandlerAnswers ==
  /\ loopPc = "serving"
  /\ kvMovie' = PutAll(kvMovie, serverBatch)
  /\ serverMovies' = AfterLoop(serverMovies, serverBatch)
  /\ summary' = Summary(serverMovies, serverBatch)
  /\ processedIds' = processedIds \cup IdsOf(serverBatch)
  /\ loopPc' = "answered"
  /\ UNCHANGED <<loopForce, totalToProcess, processedSoFar, batchLimit,
                 serverBatch, startList, others, kvToWatch, listVars,
                 loadVars>>

\* The client reads the answer: break when remaining is 0
ClientReads ==
  /\ loopPc = "answered"
  /\ processedSoFar' = Advance(processedSoFar, summary)
  /\ IF summary.remaining = 0
     THEN ExitLoop
     ELSE loopPc' = "delay" /\ UNCHANGED <<requests, isLoading>>
  /\ UNCHANGED <<loopForce, totalToProcess, batchLimit, serverMovies,
                 serverBatch, summary, startList, processedIds, others,
                 storeVars, listVars, kvRating, localMovies, localToWatch>>

\* The 500 ms pause ends
DelayEnds ==
  /\ loopPc = "delay"
  /\ loopPc' = "head"
  /\ UNCHANGED <<loopForce, totalToProcess, processedSoFar, batchLimit,
                 serverMovies, serverBatch, summary, startList, processedIds,
                 others, storeVars, listVars, loadVars>>

\* The fetch rejects or the status is not 2xx: the catch block
RequestFails ==
  /\ loopPc \in {"sent", "serving"}
  /\ loopPc' = "error"
  /\ UNCHANGED <<loopForce, totalToProcess, processedSoFar, batchLimit,
                 serverMovies, serverBatch, summary, startList, processedIds,
                 others, storeVars, listVars, loadVars>>

\* loadMovies() after the loop returns; the handler ends
ReloadArrives(ok) ==
  /\ loopPc = "reload"
  /\ MoviesArrive(ok)
  /\ loopPc' = "done"
  /\ UNCHANGED <<loopForce, totalToProcess, processedSoFar, batchLimit,
                 serverMovies, serverBatch, summary, startList, processedIds,
                 others>>

LoopRunning == loopPc \notin {"idle", "done", "error"}

\* Another client: POST /movies/:id/fetch-trailer
OtherSetsTrailer(id) ==
  /\ LoopRunning
  /\ others < MaxOthers
  /\ \E i \in 1..Len(kvMovie) : kvMovie[i].id = id /\ kvMovie[i].trailer = ""
  /\ kvMovie' =
       [i \in 1..Len(kvMovie) |->
          IF kvMovie[i].id = id THEN WithTrailer(kvMovie[i]) ELSE kvMovie[i]]
  /\ others' = others + 1
  /\ UNCHANGED <<loopPc, loopForce, totalToProcess, processedSoFar,
                 batchLimit, serverMovies, serverBatch, summary, startList,
                 processedIds, kvToWatch, listVars, loadVars>>

\* Another client: DELETE /movies/:id
OtherDeletes(id) ==
  /\ LoopRunning
  /\ others < MaxOthers
  /\ id \in IdsOf(kvMovie)
  /\ kvMovie' = Without(kvMovie, id)
  /\ others' = others + 1
  /\ UNCHANGED <<loopPc, loopForce, totalToProcess, processedSoFar,
                 batchLimit, serverMovies, serverBatch, summary, startList,
                 processedIds, kvToWatch, listVars, loadVars>>

\* Another client: POST /movies with an entry that has no trailer
OtherAdds ==
  /\ LoopRunning
  /\ others < MaxOthers
  /\ kvMovie' = Put(kvMovie, TrailerEntry(MaxIdOf(kvMovie) + 1, FALSE))
  /\ others' = others + 1
  /\ UNCHANGED <<loopPc, loopForce, totalToProcess, processedSoFar,
                 batchLimit, serverMovies, serverBatch, summary, startList,
                 processedIds, kvToWatch, listVars, loadVars>>

\* The entries other clients touch
OtherTargets == {1, MaxCatalog - 1}

TrailerFrame ==
  UNCHANGED <<authVars, slugVars, currentView, filterVars, sortBy,
              currentPage, renderVars, detailVars, batchVars, feedbackVars,
              markVars, windowVars>>

TrailerNext ==
  \/ \E force \in BOOLEAN : StartLoop(force) /\ TrailerFrame
  \/ LoopTest /\ TrailerFrame
  \/ HandlerReads /\ TrailerFrame
  \/ HandlerAnswers /\ TrailerFrame
  \/ ClientReads /\ TrailerFrame
  \/ DelayEnds /\ TrailerFrame
  \/ RequestFails /\ TrailerFrame
  \/ \E ok \in BOOLEAN : ReloadArrives(ok) /\ TrailerFrame
  \/ \E id \in OtherTargets : OtherSetsTrailer(id) /\ TrailerFrame
  \/ \E id \in OtherTargets : OtherDeletes(id) /\ TrailerFrame
  \/ OtherAdds /\ TrailerFrame

SpecTrailers == TrailerInit /\ [][TrailerNext]_vars

\* The steps of the loop and of the server: continuations the event loop
\* runs and answers the server sends
LoopStep ==
  \/ LoopTest /\ TrailerFrame
  \/ HandlerReads /\ TrailerFrame
  \/ HandlerAnswers /\ TrailerFrame
  \/ ClientReads /\ TrailerFrame
  \/ DelayEnds /\ TrailerFrame
  \/ \E ok \in BOOLEAN : ReloadArrives(ok) /\ TrailerFrame

SpecTrailersFair ==
  TrailerInit /\ [][TrailerNext]_vars /\ WF_vars(LoopStep)

\* The loop ended without an error and no other client acted
EndedAlone == loopPc = "done" /\ others = 0

\* C25: when load-all ends without an error, every entry that lacked a
\* trailer when it started has been in a batch of the server.
C25_LoadAllCoversLacking ==
  (EndedAlone /\ ~loopForce) => IdsOf(Lacking(startList)) \subseteq processedIds

\* C26: when the force reload ends without an error, every entry of the
\* main list has been in a batch of the server.
C26_ForceReloadCoversAll ==
  (EndedAlone /\ loopForce) => IdsOf(startList) \subseteq processedIds

\* C30: a batch loop that has started ends, with other clients changing the
\* store meanwhile.
C30_LoopTerminates == (loopPc = "head") ~> (loopPc \in {"done", "error"})

\* C30 witness: a loop of more than one request has ended and another
\* client changed the store while it ran
C30_Witness ==
  /\ loopPc = "done"
  /\ others > 0
  /\ processedSoFar > ClientBatch


\* A stored user record without its password
OtherFields(u) == [u EXCEPT !.password = ""]

\* C27: a completed reset-password request leaves, in every stored copy
\* (by id, by username, by email), every field but the password as it was.
C27_ResetChangesOnlyPassword ==
  [][\A email \in Emails, newPassword \in Passwords :
       (ResetPassword(email, newPassword) /\ authStatus' = 200) =>
         /\ \A i \in UserIds :
              OtherFields(kvUserId'[i]) = OtherFields(kvUserId[i])
         /\ \A n \in LowerNames :
              OtherFields(kvUserName'[n]) = OtherFields(kvUserName[n])
         /\ \A e \in LowerEmails :
              OtherFields(kvUserEmail'[e]) = OtherFields(kvUserEmail[e])]_vars


(***************************************************************************)
(* Mark as watched, request by request: the catalogue page posts the entry *)
(* to the main list and then deletes it from the to-watch list; the detail *)
(* page reads the main list, deletes the entry from the to-watch list and  *)
(* then posts it.  A request is answered 2xx, answered with an error       *)
(* status (the store is not changed), or its fetch rejects.  One operation *)
(* runs at a time.                                                         *)
(***************************************************************************)

Outcomes == {"ok", "error", "rejects"}

\* Operations start while the main list, stored or shown, is shorter
MaxStored == 4

MarkMain == << [id |-> 1, title |-> <<"a">>], [id |-> 2, title |-> <<"b">>] >>
MarkToWatch == << [id |-> 3, title |-> <<"7">>], [id |-> 4, title |-> <<"_">>] >>

MarkInit ==
  /\ kvMovie = MarkMain
  /\ kvToWatch = MarkToWatch
  /\ movies = MarkMain
  /\ toWatchMovies = MarkToWatch
  /\ localMovies = MarkMain
  /\ localToWatch = MarkToWatch
  /\ currentView = "towatch"
  /\ selectedGenres = {}
  /\ selectedYears = {}
  /\ selectedTags = {}
  /\ searchQuery = <<>>
  /\ imdbRatingRange = <<0, 100>>
  /\ runtimeFilter = "all"
  /\ sortBy = "dateAdded"
  /\ currentPage = 1
  /\ rendered = "no"
  /\ displayMovies = <<>>
  /\ kvRating = <<>>
  /\ requests = <<>>
  /\ isLoading = FALSE
  /\ MarkIdle
  /\ TrailerIdle
  /\ WindowIdle
  /\ AuthIdle
  /\ SlugIdle
  /\ DetailIdle
  /\ BatchIdle
  /\ FeedbackIdle

MarkLists == <<movies, toWatchMovies, localMovies, localToWatch>>

\* { ...movie, id: maxId + 1 }
MovieWithNewId == [markMovie EXCEPT !.id = markNewId]

\* setMovies(updatedMainMovies), setToWatchMovies(updatedToWatchMovies) and
\* the two localStorage.setItem: the end of every branch of the catalogue
\* page's handler
UpdateLists ==
  /\ movies' = <<MovieWithNewId>> \o movies
  /\ toWatchMovies' = Without(toWatchMovies, markMovie.id)
  /\ localMovies' = movies'
  /\ localToWatch' = toWatchMovies'

\* The catalogue page mounts: loadMovies and loadToWatchMovies are answered
Mounted ==
  /\ markAt' = "home"
  /\ movies' = kvMovie'
  /\ toWatchMovies' = kvToWatch'
  /\ localMovies' = kvMovie'
  /\ localToWatch' = kvToWatch'

\* The browser goes (back) to the catalogue page
LoadHome ==
  /\ markPc = "idle"
  /\ UNCHANGED <<markPage, markPc, markMovie, markNewId, storeVars>>
  /\ Mounted

\* The browser opens the detail page of a to-watch entry
OpenDetail ==
  /\ markPc = "idle"
  /\ markAt = "home"
  /\ markAt' = "detail"
  /\ UNCHANGED <<markPage, markPc, markMovie, markNewId, storeVars, MarkLists>>

\* App.tsx handleMarkAsWatched(movie) up to its first fetch
HomeMarkStart(i) ==
  /\ markPc = "idle"
  /\ markAt = "home"
  /\ Len(kvMovie) < MaxStored
  /\ Len(movies) < MaxStored
  /\ i \in 1..Len(toWatchMovies)
  /\ markPage' = "home"
  /\ markMovie' = toWatchMovies[i]
  /\ markNewId' = MaxIdOf(movies) + 1
  /\ markPc' = "homePost"
  /\ UNCHANGED <<storeVars, MarkLists, markAt>>

\* POST /movies is answered: on to the DELETE, or the catch block
HomeMarkPost(outcome) ==
  /\ markPc = "homePost"
  /\ IF outcome = "ok"
     THEN /\ kvMovie' = Put(kvMovie, MovieWithNewId)
          /\ markPc' = "homeDelete"
          /\ UNCHANGED MarkLists
     ELSE /\ UNCHANGED kvMovie
          /\ markPc' = "idle"
          /\ UpdateLists
  /\ UNCHANGED <<kvToWatch, markAt, markPage, markMovie, markNewId>>

\* DELETE /towatch/:id is answered; every branch updates the lists
HomeMarkDelete(outcome) ==
  /\ markPc = "homeDelete"
  /\ kvToWatch' = IF outcome = "ok" THEN Without(kvToWatch, markMovie.id)
                  ELSE kvToWatch
  /\ markPc' = "idle"
  /\ UpdateLists
  /\ UNCHANGED <<kvMovie, markAt, markPage, markMovie, markNewId>>

\* MovieDetailPage handleMarkAsWatched up to its first fetch, on the page
\* of the i-th stored to-watch entry
DetailMarkStart(i) ==
  /\ markPc = "idle"
  /\ markAt = "detail"
  /\ Len(kvMovie) < MaxStored
  /\ i \in 1..Len(kvToWatch)
  /\ markPage' = "detail"
  /\ markMovie' = kvToWatch[i]
  /\ markNewId' = 0
  /\ markPc' = "detailGet"
  /\ UNCHANGED <<storeVars, MarkLists, markAt>>

\* GET /movies is answered: maxId of moviesData.movies || []; the status is
\* not looked at
DetailMarkGet(outcome) ==
  /\ markPc = "detailGet"
  /\ IF outcome = "rejects"
     THEN markPc' = "idle" /\ UNCHANGED markNewId
     ELSE /\ markNewId' = IF outcome = "ok" THEN MaxIdOf(kvMovie) + 1 ELSE 1
          /\ markPc' = "detailDelete"
  /\ UNCHANGED <<storeVars, MarkLists, markAt, markPage, markMovie>>

\* DELETE /towatch/:id is answered; the status is not looked at
DetailMarkDelete(outcome) ==
  /\ markPc = "detailDelete"
  /\ kvToWatch' = IF outcome = "ok" THEN Without(kvToWatch, markMovie.id)
                  ELSE kvToWatch
  /\ markPc' = IF outcome = "rejects" THEN "idle" ELSE "detailPost"
  /\ UNCHANGED <<kvMovie, MarkLists, markAt, markPage, markMovie, markNewId>>

\* POST /movies is answered; the status is not looked at and navigate('/')
\* mounts the catalogue page; a fetch that rejects leaves the detail page open
DetailMarkPost(outcome) ==
  /\ markPc = "detailPost"
  /\ kvMovie' = IF outcome = "ok" THEN Put(kvMovie, MovieWithNewId)
                ELSE kvMovie
  /\ markPc' = "idle"
  /\ UNCHANGED <<kvToWatch, markPage, markMovie, markNewId>>
  /\ IF outcome = "rejects" THEN UNCHANGED <<MarkLists, markAt>> ELSE Mounted

MarkFrame ==
  UNCHANGED <<authVars, slugVars, currentView, filterVars, sortBy,
              currentPage, renderVars, detailVars, batchVars, kvRating,
              requests, isLoading, feedbackVars, trailerVars, windowVars>>

MarkNext ==
  \/ LoadHome /\ MarkFrame
  \/ OpenDetail /\ MarkFrame
  \/ \E i \in 1..Len(MarkToWatch) : HomeMarkStart(i) /\ MarkFrame
  \/ \E outcome \in Outcomes : HomeMarkPost(outcome) /\ MarkFrame
  \/ \E outcome \in Outcomes : HomeMarkDelete(outcome) /\ MarkFrame
  \/ \E i \in 1..Len(MarkToWatch) : DetailMarkStart(i) /\ MarkFrame
  \/ \E outcome \in Outcomes : DetailMarkGet(outcome) /\ MarkFrame
  \/ \E outcome \in Outcomes : DetailMarkDelete(outcome) /\ MarkFrame
  \/ \E outcome \in Outcomes : DetailMarkPost(outcome) /\ MarkFrame

SpecMark == MarkInit /\ [][MarkNext]_vars

\* The entry of the operation is stored under towatch:<id>
InToWatch == \E i \in 1..Len(kvToWatch) : kvToWatch[i] = markMovie

\* The entry of the operation is stored under movie:<newId>
InMain == \E i \in 1..Len(kvMovie) : kvMovie[i] = MovieWithNewId

\* C28: during and after a mark-as-watched operation the entry is stored
\* under towatch:<id> or under movie:<newId>, whatever its requests answer.
C28_EntryNeverLost == markMovie # NoMovie => InToWatch \/ InMain

\* The same for the operations of the catalogue page
C28_HomeNeverLost == markPage = "home" => InToWatch \/ InMain

\* The detail page has deleted the entry and its POST was answered with an
\* error status: the entry is in neither list
C28_Lost ==
  /\ markPage = "detail"
  /\ markPc = "idle"
  /\ markAt = "home"
  /\ ~InToWatch
  /\ ~InMain


(***************************************************************************)
(* The catalogue page in a window: the md breakpoint of the stylesheet     *)
(* shows the mobile grid and controls (12 entries a page) or the desktop   *)
(* ones (24 a page); both are computed from the one currentPage.  The      *)
(* cards of the shown page carry the delete button.                        *)
(***************************************************************************)

MaxDeletes == 1

\* The page size of the grid the window shows
PerPage ==
  IF viewport = "mobile" THEN MOVIES_PER_PAGE_MOBILE
  ELSE MOVIES_PER_PAGE_DESKTOP

\* sortedMovies for sortBy = 'dateAdded' (b.id - a.id) over a list that is in
\* ascending order of id
NewestFirst(list) == [p \in 1..Len(list) |-> list[Len(list) + 1 - p]]

\* paginatedMoviesForMobile or paginatedMoviesForDesktop, as the window shows
ShownPage == PaginatedMovies(NewestFirst(filteredMovies), currentPage, PerPage)

\* totalPagesMobile or totalPagesDesktop, as the window shows
ShownTotalPages == TotalPages(Len(filteredMovies), PerPage)

WindowInit ==
  /\ movies = [i \in 1..MaxMovies |-> CatalogEntry(i)]
  /\ toWatchMovies = [i \in 1..MaxToWatch |-> CatalogEntry(MaxMovies + i)]
  /\ kvMovie = movies
  /\ kvToWatch = toWatchMovies
  /\ localMovies = movies
  /\ localToWatch = toWatchMovies
  /\ currentView = "main"
  /\ selectedGenres = {}
  /\ selectedYears = {}
  /\ selectedTags = {}
  /\ searchQuery = <<>>
  /\ imdbRatingRange = <<0, 100>>
  /\ runtimeFilter = "all"
  /\ sortBy = "dateAdded"
  /\ currentPage = 1
  /\ rendered = "no"
  /\ displayMovies = <<>>
  /\ kvRating = <<>>
  /\ requests = <<>>
  /\ isLoading = FALSE
  /\ viewport \in {"mobile", "desktop"}
  /\ deletions = 0
  /\ TrailerIdle
  /\ MarkIdle
  /\ AuthIdle
  /\ SlugIdle
  /\ DetailIdle
  /\ BatchIdle
  /\ FeedbackIdle

\* The window is resized, or the device turned, across the md breakpoint
Resize ==
  /\ viewport' = IF viewport = "mobile" THEN "desktop" ELSE "mobile"
  /\ UNCHANGED <<homeVars, storeVars, localMovies, localToWatch, deletions>>

\* handleDeleteMovie(movieId) from a card of the shown page; ok: the DELETE
\* was answered 2xx.  Every branch removes the entry from the page's list
\* and from localStorage.
handleDeleteMovie(movieId, ok) ==
  /\ deletions < MaxDeletes
  /\ \E i \in 1..Len(ShownPage) : ShownPage[i].id = movieId
  /\ deletions' = deletions + 1
  /\ IF currentView = "towatch"
     THEN /\ toWatchMovies' = Without(toWatchMovies, movieId)
          /\ localToWatch' = toWatchMovies'
          /\ kvToWatch' = IF ok THEN Without(kvToWatch, movieId) ELSE kvToWatch
          /\ UNCHANGED <<movies, localMovies, kvMovie>>
     ELSE /\ movies' = Without(movies, movieId)
          /\ localMovies' = movies'
          /\ kvMovie' = IF ok THEN Without(kvMovie, movieId) ELSE kvMovie
          /\ UNCHANGED <<toWatchMovies, localToWatch, kvToWatch>>
  /\ UNCHANGED <<currentView, filterVars, sortBy, currentPage, renderVars,
                 viewport>>

\* What the handlers of the page leave alone
WindowRest ==
  UNCHANGED <<storeVars, localMovies, localToWatch, windowVars>>

WindowFrame ==
  UNCHANGED <<authVars, slugVars, detailVars, batchVars, kvRating, requests,
              isLoading, feedbackVars, trailerVars, markVars>>

WindowNext ==
  \/ \E g \in GenreOptions, checked \in BOOLEAN :
       handleGenreChange(g, checked) /\ WindowRest /\ WindowFrame
  \/ \E q \in Queries : SearchChange(q) /\ WindowRest /\ WindowFrame
  \/ \E t \in TagOptions, checked \in BOOLEAN :
       handleTagChange(t, checked) /\ WindowRest /\ WindowFrame
  \/ \E r \in RatingRanges : ImdbRatingChange(r) /\ WindowRest /\ WindowFrame
  \/ ResetFilters /\ WindowRest /\ WindowFrame
  \/ \E v \in {"main", "towatch"} : SwitchView(v) /\ WindowRest /\ WindowFrame
  \/ ChangePageAt(PerPage) /\ WindowRest /\ WindowFrame
  \/ Resize /\ WindowFrame
  \/ \E id \in 1..(MaxMovies + MaxToWatch), ok \in BOOLEAN :
       handleDeleteMovie(id, ok) /\ WindowFrame

SpecWindow == WindowInit /\ [][WindowNext]_vars

\* currentPage is one of the pages of the grid the window shows
PageInRange ==
  /\ currentPage >= 1
  /\ currentPage <= (IF ShownTotalPages > 1 THEN ShownTotalPages ELSE 1)

\* C29: the current page number is within 1..max(1, totalPages) of the grid
\* the window shows, so a filtered list that is not empty never renders as
\* an empty page.
C29_PageInRange ==
  /\ PageInRange
  /\ (filteredMovies # <<>> => ShownPage # <<>>)

\* A viewport change keeps the page in range
C29_ResizeKeepsRange ==
  [][viewport' # viewport /\ PageInRange => PageInRange']_vars

\* A deletion keeps the page in range
C29_DeleteKeepsRange ==
  [][listVars' # listVars /\ PageInRange => PageInRange']_vars

\* A move of the rating slider keeps the page in range
C29_SliderKeepsRange ==
  [][imdbRatingRange' # imdbRatingRange /\ FilterActive' /\ PageInRange
       => PageInRange']_vars

\* The pagination buttons, the search box, the checkboxes, the reset button
\* and the view switch keep the page in range
C29_OthersKeepRange ==
  [][/\ viewport' = viewport
     /\ listVars' = listVars
     /\ (imdbRatingRange' = imdbRatingRange \/ ~FilterActive')
     /\ PageInRange
     => PageInRange']_vars
====
